---- MODULE Spec2Model ----
(***************************************************************************)
(* Model of the sculk code generator (src/src/backend/codegen.rs): the AST *)
(* walker of CodeGenerator, the temporary allocator and flush of           *)
(* EvaluationStack, the assembly of _sculkmain, and the execution of the   *)
(* emitted actions on scoreboard registers.                                *)
(***************************************************************************)
EXTENDS Integers, Sequences, FiniteSets, TLC

VARIABLES
    ast,                   \* parse_output.ast handed to compile
    unfinished_functions,  \* CodeGenerator.unfinished_functions
    ready_functions,       \* CodeGenerator.ready_functions
    eval_stacks,           \* CodeGenerator.eval_stacks
    bin_op_depth,          \* CodeGenerator.bin_op_depth
    flag_tmp_count,        \* CodeGenerator.flag_tmp_count
    loop_depth,            \* CodeGenerator.loop_depth
    propagate_return,      \* CodeGenerator.propagate_return
    propagate_break,       \* CodeGenerator.propagate_break
    anon_count,            \* suffix generator of make_anonymous_child
    frames,                \* the walker's call stack: one frame per visit_node call
    last_stack,            \* the local last_stack of end_current_evaluation, after flush
    event,                 \* what the last step did (visit_node return, flush)
    origin,                \* for each function built: the node it was built from
    phase,                 \* "start", "failed" (compile_src returned Err), "compile",
                           \* "ready" (compile_src returned Ok), "run"
    parse_errs,            \* parse_output.errs
    validation_errs,       \* validation_errs, as dissolve() returned them
    errors,                \* the local errors of compile_src
    rebranched,            \* rebranch::rebranch has run on the AST
    regs,                  \* the scoreboard registers while the emitted functions run
    rt_stack,              \* the runtime's stack of running functions
    run_steps              \* number of commands executed so far

vars == <<ast, unfinished_functions, ready_functions, eval_stacks, bin_op_depth,
          flag_tmp_count, loop_depth, propagate_return, propagate_break,
          anon_count, frames, last_stack, event, origin, phase, parse_errs,
          validation_errs, errors, rebranched, regs, rt_stack, run_steps>>

\* what compile_src holds before the generator is built
compile_vars == <<ast, parse_errs, validation_errs, errors, rebranched>>

----------------------------------------------------------------------------
(* Bounds of the model. *)

\* number literals of the generated expressions are drawn from 0..MaxVal
MaxVal == 2

\* deepest chain of nested if arms in the generated jump programs
MaxNest == 2

\* commands the emitted program may execute before the run is cut off
MaxRunSteps == 80

\* largest number of errors the parser, and the validator, report
MaxErrs == 2

----------------------------------------------------------------------------
(* Identifiers: ResourceLocation and ScoreboardEntry. *)

namespace == "p"

ResourceLocation_new(ns, path) ==
    [namespace |-> ns, path |-> path, separator |-> ":"]

ResourceLocation_scoreboard(ns, name) ==
    [namespace |-> ns, path |-> name, separator |-> "."]

with_separator(loc, sep) ==
    [loc EXCEPT !.separator = sep]

ScoreboardEntry_new(scoreboard, player) ==
    [scoreboard |-> scoreboard, player |-> player]

\* format!("TMP{}", num), format!("BREAKFLAG{}", depth)
format_indexed(prefix, num) ==
    prefix \o ToString(num)

----------------------------------------------------------------------------
(* Actions. *)

CreateStorage(name) == [type |-> "CreateStorage", name |-> name]

SetVariableToNumber(var, val) == [type |-> "SetVariableToNumber", var |-> var, val |-> val]

AddVariables(first, second) == [type |-> "AddVariables", first |-> first, second |-> second]

SubtractVariables(first, second) == [type |-> "SubtractVariables", first |-> first, second |-> second]

MultiplyVariables(first, second) == [type |-> "MultiplyVariables", first |-> first, second |-> second]

DivideVariables(first, second) == [type |-> "DivideVariables", first |-> first, second |-> second]

ModuloVariables(first, second) == [type |-> "ModuloVariables", first |-> first, second |-> second]

SetVariableToVariable(first, second) == [type |-> "SetVariableToVariable", first |-> first, second |-> second]

CallFunction(target) == [type |-> "CallFunction", target |-> target]

\* format!("score {} matches <range>", entry): the register and the range it is tested against
score_matches(entry, range) == [entry |-> entry, range |-> range]

ExecuteIf(condition, then) == [type |-> "ExecuteIf", condition |-> condition, then |-> then]

ExecuteUnless(condition, then) == [type |-> "ExecuteUnless", condition |-> condition, then |-> then]

Direct(command) == [type |-> "Direct", command |-> command]

Return == [type |-> "Return"]

----------------------------------------------------------------------------
(* EvaluationInstruction. *)

PushNumber(num) == [type |-> "PushNumber", num |-> num]

PushBool(bool) == [type |-> "PushBool", bool |-> bool]

PushVariable(name) == [type |-> "PushVariable", name |-> name]

Operation(op) == [type |-> "Operation", op |-> op]

CallFunctionInstr(func, args) == [type |-> "CallFunction", func |-> func, args |-> args]

----------------------------------------------------------------------------
(* EvaluationStack. *)

EvaluationStack_new(scoreboard, min_tmp) ==
    [instructions |-> <<>>, actions |-> <<>>, available_tmps |-> <<>>,
     max_tmps |-> min_tmp, scoreboard |-> scoreboard]

push_instruction(stack, instr) ==
    [stack EXCEPT !.instructions = Append(@, instr)]

stack_emit_action(stack, action) ==
    [stack EXCEPT !.actions = Append(@, action)]

stack_get_tmp(stack, num) ==
    ScoreboardEntry_new(stack.scoreboard, format_indexed("TMP", num))

\* the stack after reserve_available_tmp; the index it returns is reserved_tmp
reserve_available_tmp(stack) ==
    IF Len(stack.available_tmps) > 0
    THEN [stack EXCEPT !.available_tmps = SubSeq(@, 1, Len(@) - 1)]
    ELSE [stack EXCEPT !.max_tmps = @ + 1]

reserved_tmp(stack) ==
    IF Len(stack.available_tmps) > 0
    THEN stack.available_tmps[Len(stack.available_tmps)]
    ELSE stack.max_tmps + 1

free_tmp(stack, num) ==
    [stack EXCEPT !.available_tmps = Append(@, num)]

RECURSIVE free_tmps(_, _)
free_tmps(stack, tmps) ==
    IF tmps = <<>> THEN stack
    ELSE free_tmps(free_tmp(stack, Head(tmps)), Tail(tmps))

\* the state of one flush: the stack and the local intermediate_tmps
FlushState(stack, intermediate_tmps) ==
    [stack |-> stack, intermediate_tmps |-> intermediate_tmps]

flush_push_number(fs, val) ==
    LET tmp_idx == reserved_tmp(fs.stack)
        st == reserve_available_tmp(fs.stack)
    IN FlushState(stack_emit_action(st, SetVariableToNumber(stack_get_tmp(st, tmp_idx), val)),
                  Append(fs.intermediate_tmps, tmp_idx))

flush_push_variable(fs, name) ==
    LET tmp_idx == reserved_tmp(fs.stack)
        st == reserve_available_tmp(fs.stack)
    IN FlushState(stack_emit_action(st, SetVariableToVariable(stack_get_tmp(st, tmp_idx), name)),
                  Append(fs.intermediate_tmps, tmp_idx))

\* the conditional write of 1 that follows the subtraction of a comparison
comparison_write(op, tmp_a_var) ==
    LET set_one == SetVariableToNumber(tmp_a_var, 1)
    IN CASE op = "GreaterThan" -> ExecuteIf(score_matches(tmp_a_var, "1.."), set_one)
         [] op = "LessThan" -> ExecuteIf(score_matches(tmp_a_var, "..-1"), set_one)
         [] op = "GreaterThanOrEquals" -> ExecuteIf(score_matches(tmp_a_var, "0.."), set_one)
         [] op = "LessThanOrEquals" -> ExecuteIf(score_matches(tmp_a_var, "..0"), set_one)
         [] op = "CheckEquals" -> ExecuteIf(score_matches(tmp_a_var, "0"), set_one)
         [] op = "NotEquals" -> ExecuteUnless(score_matches(tmp_a_var, "0"), set_one)

ArithmeticOps == {"Add", "Subtract", "Multiply", "Divide", "Modulo"}

ComparisonOps == {"GreaterThan", "LessThan", "GreaterThanOrEquals",
                  "LessThanOrEquals", "CheckEquals", "NotEquals"}

operation_actions(op, tmp_a_var, tmp_b_var) ==
    CASE op = "Add" -> <<AddVariables(tmp_a_var, tmp_b_var)>>
      [] op = "Subtract" -> <<SubtractVariables(tmp_a_var, tmp_b_var)>>
      [] op = "Multiply" -> <<MultiplyVariables(tmp_a_var, tmp_b_var)>>
      [] op = "Divide" -> <<DivideVariables(tmp_a_var, tmp_b_var)>>
      [] op = "Modulo" -> <<ModuloVariables(tmp_a_var, tmp_b_var)>>
      [] op \in ComparisonOps ->
            <<SubtractVariables(tmp_a_var, tmp_b_var), comparison_write(op, tmp_a_var)>>

\* variant: the operands are taken in the other order
flush_operation_right_first(fs, op) ==
    LET n == Len(fs.intermediate_tmps)
        tmp_a_idx == fs.intermediate_tmps[n]
        tmp_b_idx == fs.intermediate_tmps[n - 1]
        tmp_a_var == stack_get_tmp(fs.stack, tmp_a_idx)
        tmp_b_var == stack_get_tmp(fs.stack, tmp_b_idx)
        emitted == [fs.stack EXCEPT !.actions = @ \o operation_actions(op, tmp_a_var, tmp_b_var)]
    IN FlushState(free_tmp(emitted, tmp_b_idx),
                  Append(SubSeq(fs.intermediate_tmps, 1, n - 2), tmp_a_idx))

\* variant: the left operand's index is freed instead of the right one's
flush_operation_frees_left(fs, op) ==
    LET n == Len(fs.intermediate_tmps)
        tmp_b_idx == fs.intermediate_tmps[n]
        tmp_a_idx == fs.intermediate_tmps[n - 1]
        tmp_a_var == stack_get_tmp(fs.stack, tmp_a_idx)
        tmp_b_var == stack_get_tmp(fs.stack, tmp_b_idx)
        emitted == [fs.stack EXCEPT !.actions = @ \o operation_actions(op, tmp_a_var, tmp_b_var)]
    IN FlushState(free_tmp(emitted, tmp_a_idx), SubSeq(fs.intermediate_tmps, 1, n - 1))

flush_operation(fs, op) ==
    LET n == Len(fs.intermediate_tmps)
        tmp_b_idx == fs.intermediate_tmps[n]
        tmp_a_idx == fs.intermediate_tmps[n - 1]
        tmp_a_var == stack_get_tmp(fs.stack, tmp_a_idx)
        tmp_b_var == stack_get_tmp(fs.stack, tmp_b_idx)
        emitted == [fs.stack EXCEPT !.actions = @ \o operation_actions(op, tmp_a_var, tmp_b_var)]
    IN FlushState(free_tmp(emitted, tmp_b_idx), SubSeq(fs.intermediate_tmps, 1, n - 1))

\* variant: the temporary of RET is reserved while the arguments are still held
call_reserve_then_release(stack, arg_tmps) ==
    [stack |-> free_tmps(reserve_available_tmp(stack), arg_tmps),
     ret_tmp |-> reserved_tmp(stack)]

\* the argument temporaries are freed, then the temporary of RET is reserved
call_release_and_reserve(stack, arg_tmps) ==
    LET freed == free_tmps(stack, arg_tmps)
    IN [stack |-> reserve_available_tmp(freed), ret_tmp |-> reserved_tmp(freed)]

\* variant: the callee is called before its parameters are written
flush_call_function_call_first(fs, func, args) ==
    LET n == Len(fs.intermediate_tmps)
        arg_tmps == SubSeq(fs.intermediate_tmps, n - Len(args) + 1, n)
        rest == SubSeq(fs.intermediate_tmps, 1, n - Len(args))
        copies == [i \in 1..Len(args) |->
                     SetVariableToVariable(
                         ScoreboardEntry_new(with_separator(func, "."), args[i]),
                         stack_get_tmp(fs.stack, arg_tmps[i]))]
        called == [fs.stack EXCEPT !.actions = (@ \o <<CallFunction(func)>>) \o copies]
        rr == call_release_and_reserve(called, arg_tmps)
        ret_copy == SetVariableToVariable(
                        stack_get_tmp(rr.stack, rr.ret_tmp),
                        ScoreboardEntry_new(with_separator(func, "."), "RET"))
    IN FlushState(stack_emit_action(rr.stack, ret_copy), Append(rest, rr.ret_tmp))

flush_call_function(fs, func, args) ==
    LET n == Len(fs.intermediate_tmps)
        arg_tmps == SubSeq(fs.intermediate_tmps, n - Len(args) + 1, n)
        rest == SubSeq(fs.intermediate_tmps, 1, n - Len(args))
        copies == [i \in 1..Len(args) |->
                     SetVariableToVariable(
                         ScoreboardEntry_new(with_separator(func, "."), args[i]),
                         stack_get_tmp(fs.stack, arg_tmps[i]))]
        called == [fs.stack EXCEPT !.actions = (@ \o copies) \o <<CallFunction(func)>>]
        rr == call_release_and_reserve(called, arg_tmps)
        ret_copy == SetVariableToVariable(
                        stack_get_tmp(rr.stack, rr.ret_tmp),
                        ScoreboardEntry_new(with_separator(func, "."), "RET"))
    IN FlushState(stack_emit_action(rr.stack, ret_copy), Append(rest, rr.ret_tmp))

flush_instruction(fs, instr) ==
    CASE instr.type = "PushNumber" -> flush_push_number(fs, instr.num)
      [] instr.type = "PushBool" -> flush_push_number(fs, IF instr.bool THEN 1 ELSE 0)
      [] instr.type = "PushVariable" -> flush_push_variable(fs, instr.name)
      [] instr.type = "Operation" -> flush_operation(fs, instr.op)
      [] instr.type = "CallFunction" -> flush_call_function(fs, instr.func, instr.args)

RECURSIVE flush_loop(_, _)
flush_loop(fs, instructions) ==
    IF instructions = <<>> THEN fs
    ELSE flush_loop(flush_instruction(fs, Head(instructions)), Tail(instructions))

\* variant: the index handed back to the caller is kept off the free list
flush_released_keep_target(intermediate_tmps) ==
    Tail(intermediate_tmps)

\* the temporaries freed when the instruction loop is over
flush_released(intermediate_tmps) ==
    intermediate_tmps

\* the end of flush: the copy into the first temporary, the frees, the clear
flush_finish(fs) ==
    LET target_tmp == fs.intermediate_tmps[1]
        result_tmp == fs.intermediate_tmps[Len(fs.intermediate_tmps)]
        moved == IF Len(fs.intermediate_tmps) = 2 /\ result_tmp # target_tmp
                 THEN stack_emit_action(fs.stack,
                          SetVariableToVariable(stack_get_tmp(fs.stack, target_tmp),
                                                stack_get_tmp(fs.stack, result_tmp)))
                 ELSE fs.stack
        freed == free_tmps(moved, flush_released(fs.intermediate_tmps))
    IN [stack |-> [freed EXCEPT !.instructions = <<>>],
        result |-> target_tmp,
        remaining |-> fs.intermediate_tmps]

\* flush: the stack after it, the index it returns, and the working stack it ended with
flush(stack) ==
    flush_finish(flush_loop(FlushState(stack, <<>>), stack.instructions))

----------------------------------------------------------------------------
(* The AST (ParserNode).  Every node is a record of the same shape: its    *)
(* kind, and of name, num, op and kids the ones its kind carries.          *)

Node(kind, name, num, op, kids) ==
    [kind |-> kind, name |-> name, num |-> num, op |-> op, kids |-> kids]

NumberLiteral(num) == Node("NumberLiteral", "", num, "", <<>>)

BoolLiteral(bool) == Node("BoolLiteral", "", IF bool THEN 1 ELSE 0, "", <<>>)

Identifier(name) == Node("Identifier", name, 0, "", <<>>)

BinaryOperation(lhs, rhs, op) == Node("Operation", "", 0, op, <<lhs, rhs>>)

OpEquals(name, expr, op) == Node("OpEquals", name, 0, op, <<expr>>)

VariableDeclaration(name, expr) == Node("VariableDeclaration", name, 0, "", <<expr>>)

VariableAssignment(name, expr) == Node("VariableAssignment", name, 0, "", <<expr>>)

Program(nodes) == Node("Program", "", 0, "", nodes)

FunctionDeclaration(name, body) == Node("FunctionDeclaration", name, 0, "", <<body>>)

FunctionCall(name, args) == Node("FunctionCall", name, 0, "", args)

ReturnNode(exprs) == Node("Return", "", 0, "", exprs)

Block(nodes) == Node("Block", "", 0, "", nodes)

TypedIdentifier(name) == Node("TypedIdentifier", name, 0, "", <<>>)

Unary(expr, op) == Node("Unary", "", 0, op, <<expr>>)

If(cond, body) == Node("If", "", 0, "", <<cond, body>>)

IfElse(cond, body, else_body) == Node("If", "", 0, "", <<cond, body, else_body>>)

For(init, cond, step, body) == Node("For", "", 0, "", <<init, cond, step, body>>)

Break == Node("Break", "", 0, "", <<>>)

CommandLiteral(command) == Node("CommandLiteral", command, 0, "", <<>>)

StructDefinition(name) == Node("StructDefinition", name, 0, "", <<>>)

----------------------------------------------------------------------------
(* Functions and the signature table handed over by the validator. *)

type_pool_none == "none"

func_signatures ==
    [name \in {"main", "f", "g", "h"} |->
        CASE name = "main" -> [params |-> <<>>, return_type |-> "none"]
          [] name = "f" -> [params |-> <<"x">>, return_type |-> "int"]
          [] name = "g" -> [params |-> <<"x", "y">>, return_type |-> "int"]
          [] name = "h" -> [params |-> <<>>, return_type |-> "int"]]

Function_new_empty(name, scoreboard, params, return_type) ==
    [name |-> name, scoreboard |-> scoreboard, params |-> params,
     return_type |-> return_type, actions |-> <<>>, is_anonymous |-> FALSE]

\* a fresh child on the parent's scoreboard, named by the suffix generator
make_anonymous_child(parent, suffix) ==
    [name |-> (parent.name \o "/") \o ToString(suffix), scoreboard |-> parent.scoreboard,
     params |-> <<>>, return_type |-> parent.return_type, actions |-> <<>>,
     is_anonymous |-> TRUE]

to_string(loc) == (loc.namespace \o loc.separator) \o loc.path

----------------------------------------------------------------------------
(* Helpers of CodeGenerator.  They take the function stack they act on, so *)
(* that one step of the walker can chain several of them.                   *)

current_function(ufs) == ufs[Len(ufs)]

\* variant: the action goes to the builder at the bottom of the stack
emit_action_from_afar(ufs, action) ==
    [ufs EXCEPT ![1].actions = Append(@, action)]

\* self.current_function_mut().actions.push(action)
emit_action(ufs, action) ==
    [ufs EXCEPT ![Len(ufs)].actions = Append(@, action)]

emit_actions(ufs, actions) ==
    [ufs EXCEPT ![Len(ufs)].actions = @ \o actions]

resource_location(path) == ResourceLocation_new(namespace, path)

scoreboard(name) == ResourceLocation_scoreboard(namespace, name)

active_scoreboard(ufs) == current_function(ufs).scoreboard

local_variable(ufs, name) ==
    ScoreboardEntry_new(current_function(ufs).scoreboard, name)

get_tmp(ufs, num) == local_variable(ufs, format_indexed("TMP", num))

current_break_flag(ufs, depth) ==
    local_variable(ufs, format_indexed("BREAKFLAG", depth))

push_eval_instr(stacks, instr) ==
    [stacks EXCEPT ![Len(stacks)] = push_instruction(@, instr)]

begin_evaluation_for_scoreboard(stacks, sb, min_tmp) ==
    Append(stacks, EvaluationStack_new(sb, min_tmp))

\* end_current_evaluation: pop the last stack, flush it, emit its actions
end_current_evaluation(ufs, stacks) ==
    LET flushed == flush(stacks[Len(stacks)])
    IN [unfinished_functions |-> emit_actions(ufs, flushed.stack.actions),
        eval_stacks |-> SubSeq(stacks, 1, Len(stacks) - 1),
        result_tmp |-> flushed.result,
        last_stack |-> flushed]

account_for_return(ufs, latched) ==
    IF ~latched THEN ufs
    ELSE emit_action(ufs, ExecuteIf(score_matches(local_variable(ufs, "RETFLAG"), "1"), Return))

account_for_break(ufs, latched, depth) ==
    IF ~latched THEN ufs
    ELSE emit_action(ufs, ExecuteIf(score_matches(current_break_flag(ufs, depth), "1"), Return))

account_for_jumps(ufs, ret_latched, break_latched, depth) ==
    account_for_break(account_for_return(ufs, ret_latched), break_latched, depth)

\* ready_functions.insert(name, func)
insert(map, name, func) == (name :> func) @@ map

pop(seq) == SubSeq(seq, 1, Len(seq) - 1)

----------------------------------------------------------------------------
(* The walker.  frames holds one frame per visit_node call in progress: the *)
(* node, the place reached in its visitor (pc) and the visitor's locals.    *)

Frame(node) ==
    [node |-> node, pc |-> "enter", i |-> 1, tmp |-> 0, name |-> "", flag |-> FALSE]

top == frames[Len(frames)]

\* the visitor moves on to pc
goto(pc) == [frames EXCEPT ![Len(frames)].pc = pc]

\* the visitor calls visit_node(child) and resumes at pc
call(pc, child) == Append(goto(pc), Frame(child))

at(kind, pc) ==
    /\ phase = "compile"
    /\ frames # <<>>
    /\ top.node.kind = kind
    /\ top.pc = pc

NoEvent == [type |-> "none", kind |-> ""]

FlushEvent == [type |-> "flush", kind |-> ""]

walker_vars == <<unfinished_functions, ready_functions, eval_stacks, bin_op_depth,
                 flag_tmp_count, loop_depth, propagate_return, propagate_break,
                 anon_count, last_stack, origin>>

runtime_vars == <<regs, rt_stack, run_steps>>

Origin(node, role, parent, depth) ==
    [node |-> node, role |-> role, parent |-> parent, loop_depth |-> depth]

visit_number ==
    /\ at("NumberLiteral", "enter")
    /\ eval_stacks' = push_eval_instr(eval_stacks, PushNumber(top.node.num))
    /\ frames' = goto("exit")
    /\ event' = NoEvent
    /\ UNCHANGED <<compile_vars, unfinished_functions, ready_functions, bin_op_depth, flag_tmp_count,
                   loop_depth, propagate_return, propagate_break, anon_count, last_stack,
                   origin, phase, runtime_vars>>

visit_bool ==
    /\ at("BoolLiteral", "enter")
    /\ eval_stacks' = push_eval_instr(eval_stacks, PushBool(top.node.num = 1))
    /\ frames' = goto("exit")
    /\ event' = NoEvent
    /\ UNCHANGED <<compile_vars, unfinished_functions, ready_functions, bin_op_depth, flag_tmp_count,
                   loop_depth, propagate_return, propagate_break, anon_count, last_stack,
                   origin, phase, runtime_vars>>

visit_identifier ==
    /\ at("Identifier", "enter")
    /\ eval_stacks' = push_eval_instr(eval_stacks,
                          PushVariable(local_variable(unfinished_functions, top.node.name)))
    /\ frames' = goto("exit")
    /\ event' = NoEvent
    /\ UNCHANGED <<compile_vars, unfinished_functions, ready_functions, bin_op_depth, flag_tmp_count,
                   loop_depth, propagate_return, propagate_break, anon_count, last_stack,
                   origin, phase, runtime_vars>>

visit_binary_operation ==
    /\ \/ /\ at("Operation", "enter")
          /\ bin_op_depth' = bin_op_depth + 1
          /\ frames' = call("rhs", top.node.kids[1])
          /\ UNCHANGED eval_stacks
       \/ /\ at("Operation", "rhs")
          /\ frames' = call("op", top.node.kids[2])
          /\ UNCHANGED <<bin_op_depth, eval_stacks>>
       \/ /\ at("Operation", "op")
          /\ eval_stacks' = push_eval_instr(eval_stacks, Operation(top.node.op))
          /\ bin_op_depth' = bin_op_depth - 1
          /\ frames' = goto("exit")
    /\ event' = NoEvent
    /\ UNCHANGED <<compile_vars, unfinished_functions, ready_functions, flag_tmp_count, loop_depth,
                   propagate_return, propagate_break, anon_count, last_stack, origin,
                   phase, runtime_vars>>

op_equals_action(op, first, second) ==
    CASE op = "Add" -> AddVariables(first, second)
      [] op = "Subtract" -> SubtractVariables(first, second)
      [] op = "Multiply" -> MultiplyVariables(first, second)
      [] op = "Divide" -> DivideVariables(first, second)
      [] op = "Modulo" -> ModuloVariables(first, second)

visit_op_equals ==
    /\ \/ /\ at("OpEquals", "enter")
          /\ eval_stacks' = begin_evaluation_for_scoreboard(
                                eval_stacks, active_scoreboard(unfinished_functions), 0)
          /\ frames' = call("end", top.node.kids[1])
          /\ event' = NoEvent
          /\ UNCHANGED <<unfinished_functions, last_stack>>
       \/ /\ at("OpEquals", "end")
          /\ LET ended == end_current_evaluation(unfinished_functions, eval_stacks)
                 ufs == ended.unfinished_functions
             IN /\ unfinished_functions' =
                       emit_action(ufs, op_equals_action(top.node.op,
                                            local_variable(ufs, top.node.name),
                                            get_tmp(ufs, ended.result_tmp)))
                /\ eval_stacks' = ended.eval_stacks
                /\ last_stack' = ended.last_stack
          /\ frames' = goto("exit")
          /\ event' = FlushEvent
    /\ UNCHANGED <<compile_vars, ready_functions, bin_op_depth, flag_tmp_count, loop_depth,
                   propagate_return, propagate_break, anon_count, origin, phase,
                   runtime_vars>>

visit_unary ==
    /\ \/ /\ at("Unary", "enter")
          /\ top.node.op = "Negate"
          /\ frames' = call("negate", top.node.kids[1])
          /\ UNCHANGED eval_stacks
       \/ /\ at("Unary", "negate")
          /\ eval_stacks' = push_eval_instr(push_eval_instr(eval_stacks, PushNumber(-1)),
                                            Operation("Multiply"))
          /\ frames' = goto("exit")
       \/ /\ at("Unary", "enter")
          /\ top.node.op = "Not"
          /\ eval_stacks' = push_eval_instr(eval_stacks, PushNumber(1))
          /\ frames' = call("not", top.node.kids[1])
       \/ /\ at("Unary", "not")
          /\ eval_stacks' = push_eval_instr(eval_stacks, Operation("Subtract"))
          /\ frames' = goto("exit")
    /\ event' = NoEvent
    /\ UNCHANGED <<compile_vars, unfinished_functions, ready_functions, bin_op_depth, flag_tmp_count,
                   loop_depth, propagate_return, propagate_break, anon_count, last_stack,
                   origin, phase, runtime_vars>>

visit_variable_assignment ==
    /\ \/ /\ \/ at("VariableDeclaration", "enter")
             \/ at("VariableAssignment", "enter")
          /\ eval_stacks' = begin_evaluation_for_scoreboard(
                                eval_stacks, active_scoreboard(unfinished_functions), 0)
          /\ frames' = call("end", top.node.kids[1])
          /\ event' = NoEvent
          /\ UNCHANGED <<unfinished_functions, last_stack>>
       \/ /\ \/ at("VariableDeclaration", "end")
             \/ at("VariableAssignment", "end")
          /\ LET ended == end_current_evaluation(unfinished_functions, eval_stacks)
                 ufs == ended.unfinished_functions
             IN /\ unfinished_functions' =
                       emit_action(ufs, SetVariableToVariable(
                                            local_variable(ufs, top.node.name),
                                            get_tmp(ufs, ended.result_tmp)))
                /\ eval_stacks' = ended.eval_stacks
                /\ last_stack' = ended.last_stack
          /\ frames' = goto("exit")
          /\ event' = FlushEvent
    /\ UNCHANGED <<compile_vars, ready_functions, bin_op_depth, flag_tmp_count, loop_depth,
                   propagate_return, propagate_break, anon_count, origin, phase,
                   runtime_vars>>

visit_program ==
    /\ \/ /\ at("Program", "enter")
          /\ top.i <= Len(top.node.kids)
          /\ frames' = Append([frames EXCEPT ![Len(frames)].i = @ + 1],
                              Frame(top.node.kids[top.i]))
       \/ /\ at("Program", "enter")
          /\ top.i > Len(top.node.kids)
          /\ frames' = goto("exit")
    /\ event' = NoEvent
    /\ UNCHANGED <<compile_vars, walker_vars, eval_stacks, phase, runtime_vars>>

visit_block ==
    /\ \/ /\ at("Block", "enter")
          /\ top.i <= Len(top.node.kids)
          /\ frames' = Append([frames EXCEPT ![Len(frames)].i = @ + 1],
                              Frame(top.node.kids[top.i]))
       \/ /\ at("Block", "enter")
          /\ top.i > Len(top.node.kids)
          /\ frames' = goto("exit")
    /\ event' = NoEvent
    /\ UNCHANGED <<compile_vars, walker_vars, eval_stacks, phase, runtime_vars>>

\* variant: the prelude is left out
declaration_prelude_never(ufs, return_type) ==
    ufs

\* RETFLAG := 0 at the head of a function that returns a value
declaration_prelude(ufs, return_type) ==
    IF return_type # type_pool_none
    THEN emit_action(ufs, SetVariableToNumber(local_variable(ufs, "RETFLAG"), 0))
    ELSE ufs

visit_function_declaration ==
    /\ \/ /\ at("FunctionDeclaration", "enter")
          /\ LET func_signature == func_signatures[top.node.name]
                 pushed == Append(unfinished_functions,
                               Function_new_empty(top.node.name, scoreboard(top.node.name),
                                   func_signature.params, func_signature.return_type))
             IN unfinished_functions' =
                    declaration_prelude(pushed, func_signature.return_type)
          /\ origin' = insert(origin, top.node.name,
                              Origin(top.node.kids[1], "decl", "", loop_depth))
          /\ frames' = call("end", top.node.kids[1])
          /\ UNCHANGED <<ready_functions, flag_tmp_count>>
       \/ /\ at("FunctionDeclaration", "end")
          /\ ready_functions' = insert(ready_functions, top.node.name,
                                       current_function(unfinished_functions))
          /\ unfinished_functions' = pop(unfinished_functions)
          /\ flag_tmp_count' = 0
          /\ frames' = goto("exit")
          /\ UNCHANGED origin
    /\ event' = NoEvent
    /\ UNCHANGED <<compile_vars, eval_stacks, bin_op_depth, loop_depth, propagate_return,
                   propagate_break, anon_count, last_stack, phase, runtime_vars>>

\* variant: every call opens an evaluation stack of its own
use_new_stack_always(stacks) ==
    TRUE

\* a call opens an evaluation stack only when none is open
use_new_stack(stacks) ==
    stacks = <<>>

visit_function_call ==
    /\ \/ /\ at("FunctionCall", "enter")
          /\ LET opens == use_new_stack(eval_stacks)
             IN /\ eval_stacks' =
                       IF opens
                       THEN begin_evaluation_for_scoreboard(
                                eval_stacks, active_scoreboard(unfinished_functions), 0)
                       ELSE eval_stacks
                /\ frames' = [frames EXCEPT ![Len(frames)].pc = "args",
                                            ![Len(frames)].flag = opens]
          /\ event' = NoEvent
          /\ UNCHANGED <<unfinished_functions, last_stack>>
       \/ /\ at("FunctionCall", "args")
          /\ top.i <= Len(top.node.kids)
          /\ frames' = Append([frames EXCEPT ![Len(frames)].i = @ + 1],
                              Frame(top.node.kids[top.i]))
          /\ event' = NoEvent
          /\ UNCHANGED <<unfinished_functions, eval_stacks, last_stack>>
       \/ /\ at("FunctionCall", "args")
          /\ top.i > Len(top.node.kids)
          /\ ~top.flag
          /\ eval_stacks' = push_eval_instr(eval_stacks,
                                CallFunctionInstr(resource_location(top.node.name),
                                                  func_signatures[top.node.name].params))
          /\ frames' = goto("exit")
          /\ event' = NoEvent
          /\ UNCHANGED <<unfinished_functions, last_stack>>
       \/ /\ at("FunctionCall", "args")
          /\ top.i > Len(top.node.kids)
          /\ top.flag
          /\ LET pushed == push_eval_instr(eval_stacks,
                               CallFunctionInstr(resource_location(top.node.name),
                                                 func_signatures[top.node.name].params))
                 ended == end_current_evaluation(unfinished_functions, pushed)
             IN /\ unfinished_functions' = ended.unfinished_functions
                /\ eval_stacks' = ended.eval_stacks
                /\ last_stack' = ended.last_stack
          /\ frames' = goto("exit")
          /\ event' = FlushEvent
    /\ UNCHANGED <<compile_vars, ready_functions, bin_op_depth, flag_tmp_count, loop_depth,
                   propagate_return, propagate_break, anon_count, origin, phase,
                   runtime_vars>>

\* variant: the function returns before RETFLAG is written
return_sequence_return_first(ufs) ==
    emit_action(emit_action(ufs, Return),
                SetVariableToNumber(local_variable(ufs, "RETFLAG"), 1))

\* the actions every return ends with
return_sequence(ufs) ==
    emit_action(emit_action(ufs, SetVariableToNumber(local_variable(ufs, "RETFLAG"), 1)),
                Return)

visit_return ==
    /\ \/ /\ at("Return", "enter")
          /\ top.node.kids # <<>>
          /\ eval_stacks' = begin_evaluation_for_scoreboard(
                                eval_stacks, active_scoreboard(unfinished_functions), 0)
          /\ frames' = call("value", top.node.kids[1])
          /\ event' = NoEvent
          /\ UNCHANGED <<unfinished_functions, propagate_return, last_stack>>
       \/ /\ at("Return", "value")
          /\ LET ended == end_current_evaluation(unfinished_functions, eval_stacks)
                 ufs == ended.unfinished_functions
             IN /\ unfinished_functions' =
                       return_sequence(emit_action(ufs,
                           SetVariableToVariable(local_variable(ufs, "RET"),
                                                 get_tmp(ufs, ended.result_tmp))))
                /\ eval_stacks' = ended.eval_stacks
                /\ last_stack' = ended.last_stack
          /\ propagate_return' = TRUE
          /\ frames' = goto("exit")
          /\ event' = FlushEvent
       \/ /\ at("Return", "enter")
          /\ top.node.kids = <<>>
          /\ unfinished_functions' = return_sequence(unfinished_functions)
          /\ propagate_return' = TRUE
          /\ frames' = goto("exit")
          /\ event' = NoEvent
          /\ UNCHANGED <<eval_stacks, last_stack>>
    /\ UNCHANGED <<compile_vars, ready_functions, bin_op_depth, flag_tmp_count, loop_depth,
                   propagate_break, anon_count, origin, phase, runtime_vars>>

visit_command_literal ==
    /\ at("CommandLiteral", "enter")
    /\ unfinished_functions' = emit_action(unfinished_functions, Direct(top.node.name))
    /\ frames' = goto("exit")
    /\ event' = NoEvent
    /\ UNCHANGED <<compile_vars, ready_functions, eval_stacks, bin_op_depth, flag_tmp_count,
                   loop_depth, propagate_return, propagate_break, anon_count, last_stack,
                   origin, phase, runtime_vars>>

visit_break ==
    /\ at("Break", "enter")
    /\ unfinished_functions' =
           emit_action(emit_action(unfinished_functions,
                           SetVariableToNumber(
                               current_break_flag(unfinished_functions, loop_depth), 1)),
                       Return)
    /\ propagate_break' = TRUE
    /\ frames' = goto("exit")
    /\ event' = NoEvent
    /\ UNCHANGED <<compile_vars, ready_functions, eval_stacks, bin_op_depth, flag_tmp_count,
                   loop_depth, propagate_return, anon_count, last_stack, origin, phase,
                   runtime_vars>>

\* TypedIdentifier and StructDefinition: nothing to be done
visit_nothing ==
    /\ \/ at("TypedIdentifier", "enter")
       \/ at("StructDefinition", "enter")
    /\ frames' = goto("exit")
    /\ event' = NoEvent
    /\ UNCHANGED <<compile_vars, walker_vars, eval_stacks, phase, runtime_vars>>

\* variant: the guard tests the register against 0
guarded_call_matches_zero(ufs, result_tmp, func_name) ==
    [condition |-> score_matches(get_tmp(ufs, result_tmp), "0"),
     then |-> CallFunction(resource_location(func_name))]

\* the condition and the call the guards of visit_if and visit_for are made of
guarded_call(ufs, result_tmp, func_name) ==
    [condition |-> score_matches(get_tmp(ufs, result_tmp), "1"),
     then |-> CallFunction(resource_location(func_name))]

visit_if ==
    /\ \/ /\ at("If", "enter")
          /\ eval_stacks' = begin_evaluation_for_scoreboard(
                                eval_stacks, active_scoreboard(unfinished_functions), 0)
          /\ frames' = call("cond", top.node.kids[1])
          /\ event' = NoEvent
          /\ UNCHANGED <<unfinished_functions, ready_functions, flag_tmp_count,
                         anon_count, last_stack, origin>>
       \/ /\ at("If", "cond")
          /\ LET ended == end_current_evaluation(unfinished_functions, eval_stacks)
                 ufs == ended.unfinished_functions
                 true_func == make_anonymous_child(current_function(ufs), anon_count)
             IN /\ unfinished_functions' = Append(ufs, true_func)
                /\ eval_stacks' = ended.eval_stacks
                /\ last_stack' = ended.last_stack
                /\ origin' = insert(origin, true_func.name,
                                 Origin(top.node.kids[2], "then",
                                        current_function(ufs).name, loop_depth))
                /\ frames' = Append([frames EXCEPT ![Len(frames)].pc = "body",
                                                   ![Len(frames)].tmp = ended.result_tmp,
                                                   ![Len(frames)].name = true_func.name],
                                    Frame(top.node.kids[2]))
          /\ flag_tmp_count' = flag_tmp_count + 1
          /\ anon_count' = anon_count + 1
          /\ event' = FlushEvent
          /\ UNCHANGED ready_functions
       \/ /\ at("If", "body")
          /\ Len(top.node.kids) = 2
          /\ LET popped == pop(unfinished_functions)
                 g == guarded_call(popped, top.tmp, top.name)
                 emitted == emit_action(popped, ExecuteIf(g.condition, g.then))
                 first == account_for_jumps(emitted, propagate_return, propagate_break,
                                            loop_depth)
             IN unfinished_functions' =
                    account_for_jumps(first, propagate_return, propagate_break, loop_depth)
          /\ ready_functions' = insert(ready_functions, top.name,
                                       current_function(unfinished_functions))
          /\ frames' = goto("exit")
          /\ event' = NoEvent
          /\ UNCHANGED <<eval_stacks, flag_tmp_count, anon_count, last_stack, origin>>
       \/ /\ at("If", "body")
          /\ Len(top.node.kids) = 3
          /\ LET popped == pop(unfinished_functions)
                 g == guarded_call(popped, top.tmp, top.name)
                 emitted == emit_action(popped, ExecuteIf(g.condition, g.then))
                 first == account_for_jumps(emitted, propagate_return, propagate_break,
                                            loop_depth)
                 false_func == make_anonymous_child(current_function(first), anon_count)
             IN /\ unfinished_functions' = Append(first, false_func)
                /\ origin' = insert(origin, false_func.name,
                                 Origin(top.node.kids[3], "else",
                                        current_function(first).name, loop_depth))
                /\ frames' = Append([frames EXCEPT ![Len(frames)].pc = "else",
                                                   ![Len(frames)].name = false_func.name],
                                    Frame(top.node.kids[3]))
          /\ ready_functions' = insert(ready_functions, top.name,
                                       current_function(unfinished_functions))
          /\ anon_count' = anon_count + 1
          /\ event' = NoEvent
          /\ UNCHANGED <<eval_stacks, flag_tmp_count, last_stack>>
       \/ /\ at("If", "else")
          /\ LET popped == pop(unfinished_functions)
                 g == guarded_call(popped, top.tmp, top.name)
                 emitted == emit_action(popped, ExecuteUnless(g.condition, g.then))
             IN unfinished_functions' =
                    account_for_jumps(emitted, propagate_return, propagate_break, loop_depth)
          /\ ready_functions' = insert(ready_functions, top.name,
                                       current_function(unfinished_functions))
          /\ frames' = goto("exit")
          /\ event' = NoEvent
          /\ UNCHANGED <<eval_stacks, flag_tmp_count, anon_count, last_stack, origin>>
    /\ UNCHANGED <<compile_vars, bin_op_depth, loop_depth, propagate_return, propagate_break,
                   phase, runtime_vars>>

\* variant: the latch is left as the loop body set it
for_exit_break_latch_kept(latched) ==
    latched

\* propagate_break when visit_for reaches its jump accounting
for_exit_break_latch(latched) ==
    FALSE

visit_for ==
    /\ \/ /\ at("For", "enter")
          /\ loop_depth' = loop_depth + 1
          /\ frames' = call("init", top.node.kids[1])
          /\ event' = NoEvent
          /\ UNCHANGED <<unfinished_functions, ready_functions, eval_stacks, flag_tmp_count,
                         propagate_break, anon_count, last_stack, origin>>
       \/ /\ at("For", "init")
          /\ LET loop_func == make_anonymous_child(current_function(unfinished_functions),
                                                   anon_count)
             IN /\ unfinished_functions' = Append(unfinished_functions, loop_func)
                /\ origin' = insert(origin, loop_func.name,
                                 Origin(top.node.kids[4], "loop",
                                        current_function(unfinished_functions).name,
                                        loop_depth))
                /\ frames' = Append([frames EXCEPT ![Len(frames)].pc = "body",
                                                   ![Len(frames)].name = loop_func.name],
                                    Frame(top.node.kids[4]))
          /\ anon_count' = anon_count + 1
          /\ event' = NoEvent
          /\ UNCHANGED <<ready_functions, eval_stacks, flag_tmp_count, loop_depth,
                         propagate_break, last_stack>>
       \/ /\ at("For", "body")
          /\ frames' = call("step", top.node.kids[3])
          /\ event' = NoEvent
          /\ UNCHANGED <<unfinished_functions, ready_functions, eval_stacks, flag_tmp_count,
                         loop_depth, propagate_break, anon_count, last_stack, origin>>
       \/ /\ at("For", "step")
          /\ eval_stacks' = begin_evaluation_for_scoreboard(
                                eval_stacks, active_scoreboard(unfinished_functions), 0)
          /\ frames' = call("cond1", top.node.kids[2])
          /\ event' = NoEvent
          /\ UNCHANGED <<unfinished_functions, ready_functions, flag_tmp_count, loop_depth,
                         propagate_break, anon_count, last_stack, origin>>
       \/ /\ at("For", "cond1")
          /\ LET ended == end_current_evaluation(unfinished_functions, eval_stacks)
                 ufs == ended.unfinished_functions
                 g == guarded_call(ufs, ended.result_tmp, top.name)
                 emitted == emit_action(ufs, ExecuteIf(g.condition, g.then))
             IN /\ ready_functions' = insert(ready_functions, top.name,
                                             current_function(emitted))
                /\ unfinished_functions' = pop(emitted)
                /\ eval_stacks' = begin_evaluation_for_scoreboard(
                                      ended.eval_stacks, active_scoreboard(pop(emitted)), 0)
                /\ last_stack' = ended.last_stack
          /\ frames' = call("cond2", top.node.kids[2])
          /\ event' = FlushEvent
          /\ UNCHANGED <<flag_tmp_count, loop_depth, propagate_break, anon_count, origin>>
       \/ /\ at("For", "cond2")
          /\ LET ended == end_current_evaluation(unfinished_functions, eval_stacks)
                 ufs == ended.unfinished_functions
                 g == guarded_call(ufs, ended.result_tmp, top.name)
                 emitted == emit_action(ufs, ExecuteIf(g.condition, g.then))
                 latch == for_exit_break_latch(propagate_break)
             IN /\ unfinished_functions' =
                       account_for_jumps(emitted, propagate_return, latch, loop_depth)
                /\ eval_stacks' = ended.eval_stacks
                /\ last_stack' = ended.last_stack
                /\ propagate_break' = latch
          /\ flag_tmp_count' = flag_tmp_count + 1
          /\ loop_depth' = loop_depth - 1
          /\ frames' = goto("exit")
          /\ event' = FlushEvent
          /\ UNCHANGED <<ready_functions, anon_count, origin>>
    /\ UNCHANGED <<compile_vars, bin_op_depth, propagate_return, phase, runtime_vars>>

\* variant: both latches are cleared when visit_node ends
visit_node_latches_clear_both(ret_latched, break_latched) ==
    [propagate_return |-> FALSE, propagate_break |-> FALSE]

\* variant: visit_node ends without touching the latches
visit_node_latches_keep_return(ret_latched, break_latched) ==
    [propagate_return |-> ret_latched, propagate_break |-> break_latched]

\* propagate_return and propagate_break as visit_node leaves them
visit_node_latches(ret_latched, break_latched) ==
    [propagate_return |-> FALSE, propagate_break |-> break_latched]

\* the end of visit_node, after the match on the node's kind
visit_node ==
    /\ phase = "compile"
    /\ frames # <<>>
    /\ top.pc = "exit"
    /\ LET latches == visit_node_latches(propagate_return, propagate_break)
       IN /\ propagate_return' = latches.propagate_return
          /\ propagate_break' = latches.propagate_break
    /\ frames' = pop(frames)
    /\ event' = [type |-> "visit_node_return", kind |-> top.node.kind]
    /\ UNCHANGED <<compile_vars, unfinished_functions, ready_functions, eval_stacks, bin_op_depth,
                   flag_tmp_count, loop_depth, anon_count, last_stack, origin, phase,
                   runtime_vars>>

Orderings(S) ==
    {order \in [1..Cardinality(S) -> S] :
        \A i, j \in 1..Cardinality(S) : i # j => order[i] # order[j]}

CompileError_Parse(err) == [type |-> "Parse", err |-> err]

CompileError_Validate(err) == [type |-> "Validate", err |-> err]

\* variant: the validator's errors are not collected
collect_errors_parse_only(parse, validation) ==
    [i \in 1..Len(parse) |-> CompileError_Parse(parse[i])]

\* errors.extend(parse errors), then errors.extend(validation errors)
collect_errors(parse, validation) ==
    [i \in 1..Len(parse) |-> CompileError_Parse(parse[i])]
        \o [i \in 1..Len(validation) |-> CompileError_Validate(validation[i])]

\* the head of compile_src: parse, dissolve the validator, collect the errors,
\* return Err if there is one, else rebranch and build the generator
compile_src_check ==
    /\ phase = "start"
    /\ errors' = collect_errors(parse_errs, validation_errs)
    /\ IF Len(errors') > 0
       THEN phase' = "failed" /\ rebranched' = FALSE
       ELSE phase' = "compile" /\ rebranched' = TRUE
    /\ event' = NoEvent
    /\ UNCHANGED <<ast, parse_errs, validation_errs, unfinished_functions, ready_functions,
                   eval_stacks, bin_op_depth, flag_tmp_count, loop_depth, propagate_return,
                   propagate_break, anon_count, frames, last_stack, origin, runtime_vars>>

\* variant: the filter on is_anonymous is left out
storage_functions_unfiltered(funcs) ==
    DOMAIN funcs

\* the ready functions compile_src declares a scoreboard for
storage_functions(funcs) ==
    {name \in DOMAIN funcs : ~funcs[name].is_anonymous}

\* variant: main is called before the scoreboards are declared
sculk_main_call_first(storages) ==
    <<CallFunction(ResourceLocation_new(namespace, "main"))>> \o storages

\* the actions of _sculkmain: the declarations, then the call of main
sculk_main_sequence(storages) ==
    Append(storages, CallFunction(ResourceLocation_new(namespace, "main")))

\* one CreateStorage for each function, in the order the iteration yields them
create_storages(funcs, order) ==
    [i \in 1..Len(order) |->
        CreateStorage(to_string(ResourceLocation_scoreboard(namespace,
                                                            funcs[order[i]].name)))]

\* compile_src once compile has returned: _sculkmain is assembled; the storages
\* follow the iteration order of ready_functions.values(), which is any order
compile_src ==
    /\ phase = "compile"
    /\ frames = <<>>
    /\ \E order \in Orderings(storage_functions(ready_functions)) :
          LET sculk_main == Function_new_empty("_sculkmain",
                                ResourceLocation_new(namespace, "_sculkmain"), <<>>,
                                type_pool_none)
              storages == create_storages(ready_functions, order)
              actions == sculk_main_sequence(storages)
          IN ready_functions' = insert(ready_functions, "_sculkmain",
                                       [sculk_main EXCEPT !.actions = actions])
    /\ phase' = "ready"
    /\ event' = NoEvent
    /\ UNCHANGED <<compile_vars, unfinished_functions, eval_stacks, bin_op_depth, flag_tmp_count,
                   loop_depth, propagate_return, propagate_break, anon_count, frames,
                   last_stack, origin, runtime_vars>>

----------------------------------------------------------------------------
(* Running the emitted functions: the commands write_action renders, on     *)
(* 32-bit scoreboard registers.  A register never written reads as 0.       *)

MaxI32 == 2147483647

MinI32 == -MaxI32 - 1

\* a + b and a - b in 32 bits, wrapping, without leaving the 32-bit range on the way
add32(a, b) ==
    IF b > 0 /\ a > MaxI32 - b THEN ((a - MaxI32) - 1) + ((b - MaxI32) - 1)
    ELSE IF b < 0 /\ a < MinI32 - b THEN ((a + MaxI32) + 1) + ((b + MaxI32) + 1)
    ELSE a + b

sub32(a, b) ==
    IF b < 0 /\ a > MaxI32 + b THEN ((a - MaxI32) - 1) - ((b + MaxI32) + 1)
    ELSE IF b > 0 /\ a < MinI32 + b THEN ((a + MaxI32) + 1) - ((b - MaxI32) - 1)
    ELSE a - b

read(registers, entry) ==
    IF entry \in DOMAIN registers THEN registers[entry] ELSE 0

write(registers, entry, val) ==
    (entry :> val) @@ registers

\* score <entry> matches <range>
matches(val, range) ==
    CASE range = "1" -> val = 1
      [] range = "0" -> val = 0
      [] range = "1.." -> val >= 1
      [] range = "0.." -> val >= 0
      [] range = "..-1" -> val <= -1
      [] range = "..0" -> val <= 0

condition_holds(registers, condition) ==
    matches(read(registers, condition.entry), condition.range)

\* /= and %= round towards minus infinity; by 0 the command fails
floor_div(a, b) == IF b > 0 THEN a \div b ELSE (0 - a) \div (0 - b)

floor_mod(a, b) == IF b > 0 THEN a % b ELSE 0 - ((0 - a) % (0 - b))

\* scoreboard players operation <first> <op>= <second>
operate(registers, action) ==
    LET a == read(registers, action.first)
        b == read(registers, action.second)
    IN CASE action.type = "SetVariableToVariable" -> write(registers, action.first, b)
         [] action.type = "AddVariables" -> write(registers, action.first, add32(a, b))
         [] action.type = "SubtractVariables" -> write(registers, action.first, sub32(a, b))
         [] action.type = "MultiplyVariables" -> write(registers, action.first, a * b)
         [] action.type = "DivideVariables" ->
               IF b = 0 THEN registers ELSE write(registers, action.first, floor_div(a, b))
         [] action.type = "ModuloVariables" ->
               IF b = 0 THEN registers ELSE write(registers, action.first, floor_mod(a, b))

RunFrame(fn) == [fn |-> fn, pc |-> 1]

\* one command: the registers and the stack of running functions after it
RECURSIVE execute(_, _, _)
execute(action, registers, stack) ==
    CASE action.type \in {"CreateStorage", "Direct"} ->
            [regs |-> registers, rt_stack |-> stack]
      [] action.type = "SetVariableToNumber" ->
            [regs |-> write(registers, action.var, action.val), rt_stack |-> stack]
      [] action.type \in {"SetVariableToVariable", "AddVariables", "SubtractVariables",
                          "MultiplyVariables", "DivideVariables", "ModuloVariables"} ->
            [regs |-> operate(registers, action), rt_stack |-> stack]
      [] action.type = "CallFunction" ->
            [regs |-> registers,
             rt_stack |-> IF action.target.path \in DOMAIN ready_functions
                          THEN Append(stack, RunFrame(action.target.path))
                          ELSE stack]
      [] action.type = "Return" ->
            [regs |-> registers, rt_stack |-> pop(stack)]
      [] action.type = "ExecuteIf" ->
            IF condition_holds(registers, action.condition)
            THEN execute(action.then, registers, stack)
            ELSE [regs |-> registers, rt_stack |-> stack]
      [] action.type = "ExecuteUnless" ->
            IF ~condition_holds(registers, action.condition)
            THEN execute(action.then, registers, stack)
            ELSE [regs |-> registers, rt_stack |-> stack]

running == rt_stack[Len(rt_stack)]

\* the datapack is loaded and _sculkmain is called
run_start ==
    /\ phase = "ready"
    /\ phase' = "run"
    /\ rt_stack' = <<RunFrame("_sculkmain")>>
    /\ event' = NoEvent
    /\ UNCHANGED <<compile_vars, walker_vars, eval_stacks, frames, regs, run_steps>>

run_command ==
    /\ phase = "run"
    /\ rt_stack # <<>>
    /\ run_steps < MaxRunSteps
    /\ running.pc <= Len(ready_functions[running.fn].actions)
    /\ LET action == ready_functions[running.fn].actions[running.pc]
           advanced == [rt_stack EXCEPT ![Len(rt_stack)].pc = @ + 1]
           after == execute(action, regs, advanced)
       IN /\ regs' = after.regs
          /\ rt_stack' = after.rt_stack
    /\ run_steps' = run_steps + 1
    /\ event' = NoEvent
    /\ UNCHANGED <<compile_vars, walker_vars, eval_stacks, frames, phase>>

\* the running function has no command left: control goes back to its caller
run_function_end ==
    /\ phase = "run"
    /\ rt_stack # <<>>
    /\ running.pc > Len(ready_functions[running.fn].actions)
    /\ rt_stack' = pop(rt_stack)
    /\ event' = NoEvent
    /\ UNCHANGED <<compile_vars, walker_vars, eval_stacks, frames, phase, regs, run_steps>>

\* the run is over
halted == phase = "run" /\ rt_stack = <<>>

----------------------------------------------------------------------------
(* The programs compiled: the scenarios of the specification, expressions   *)
(* over leaves, calls, and jumps inside nested if arms and loops.           *)

Vals == 0..MaxVal

NumberLeaves == {NumberLiteral(v) : v \in Vals}

ValueLeaves == NumberLeaves \cup {Identifier("a")}

BoolLeaves == {BoolLiteral(TRUE), BoolLiteral(FALSE)}

LeafOperations ==
    {BinaryOperation(lhs, rhs, op) :
        lhs \in ValueLeaves, rhs \in ValueLeaves, op \in ArithmeticOps \cup ComparisonOps}

LeafComparisons == {e \in LeafOperations : e.op \in ComparisonOps}

UnaryExpressions ==
    {Unary(e, "Not") : e \in LeafComparisons \cup BoolLeaves}
        \cup {Unary(e, "Negate") : e \in ValueLeaves}

CallExpressions ==
    {FunctionCall("h", <<>>)}
        \cup {FunctionCall("f", <<x>>) : x \in NumberLeaves}
        \cup {FunctionCall("g", <<x, y>>) : x \in NumberLeaves, y \in {NumberLiteral(1)}}
        \cup {FunctionCall("g", <<FunctionCall("f", <<NumberLiteral(1)>>), NumberLiteral(2)>>),
              FunctionCall("g", <<NumberLiteral(1), FunctionCall("f", <<NumberLiteral(2)>>)>>),
              FunctionCall("f", <<FunctionCall("g", <<NumberLiteral(1), NumberLiteral(2)>>)>>),
              FunctionCall("f", <<BinaryOperation(NumberLiteral(1), NumberLiteral(2), "Add")>>)}

NestedExpressions ==
    {BinaryOperation(c, NumberLiteral(1), op) :
        c \in {FunctionCall("f", <<NumberLiteral(2)>>),
               FunctionCall("g", <<NumberLiteral(1), NumberLiteral(2)>>)},
        op \in {"Add", "GreaterThan"}}
      \cup {BinaryOperation(NumberLiteral(1), c, op) :
        c \in {FunctionCall("f", <<NumberLiteral(2)>>),
               FunctionCall("g", <<NumberLiteral(1), NumberLiteral(2)>>)},
        op \in {"Add", "LessThan"}}
      \cup {BinaryOperation(BinaryOperation(NumberLiteral(2), x, op1),
                            BinaryOperation(x, NumberLiteral(1), op2), op3) :
        x \in {NumberLiteral(0), Identifier("a")},
        op1 \in {"Add", "LessThan"}, op2 \in {"Subtract", "CheckEquals"},
        op3 \in {"Multiply", "NotEquals"}}

Expressions ==
    ValueLeaves \cup BoolLeaves \cup LeafOperations \cup UnaryExpressions
        \cup CallExpressions \cup NestedExpressions

RECURSIVE called_functions(_)
called_functions(node) ==
    (IF node.kind = "FunctionCall" THEN {node.name} ELSE {})
        \cup UNION {called_functions(node.kids[i]) : i \in 1..Len(node.kids)}

\* fn f(x) { return x + 1; }   fn g(x, y) { return x - y; }   fn h() { }
Declaration(name) ==
    CASE name = "f" ->
            FunctionDeclaration("f", Block(<<ReturnNode(<<
                BinaryOperation(Identifier("x"), NumberLiteral(1), "Add")>>)>>))
      [] name = "g" ->
            FunctionDeclaration("g", Block(<<ReturnNode(<<
                BinaryOperation(Identifier("x"), Identifier("y"), "Subtract")>>)>>))
      [] name = "h" -> FunctionDeclaration("h", Block(<<>>))

Declarations(names) ==
    (IF "f" \in names THEN <<Declaration("f")>> ELSE <<>>)
        \o (IF "g" \in names THEN <<Declaration("g")>> ELSE <<>>)
        \o (IF "h" \in names THEN <<Declaration("h")>> ELSE <<>>)

\* the callees of main, then fn main() { <statements> }
MainProgram(statements) ==
    Program(Declarations(called_functions(Block(statements)))
                \o <<FunctionDeclaration("main", Block(statements))>>)

\* fn main() { let r = <e>; }
ExpressionPrograms ==
    {MainProgram(<<VariableDeclaration("r", e)>>) : e \in Expressions}

\* fn main() { let a = <va>; let b = <vb>; let r = a <op> b; }
VariableComparisonPrograms ==
    {MainProgram(<<VariableDeclaration("a", NumberLiteral(va)),
                   VariableDeclaration("b", NumberLiteral(vb)),
                   VariableDeclaration("r",
                       BinaryOperation(Identifier("a"), Identifier("b"), op))>>) :
        va \in Vals, vb \in Vals, op \in ComparisonOps}

CountingFor(var, limit, body) ==
    For(VariableDeclaration(var, NumberLiteral(0)),
        BinaryOperation(Identifier(var), NumberLiteral(limit), "LessThan"),
        VariableAssignment(var, BinaryOperation(Identifier(var), NumberLiteral(1), "Add")),
        body)

\* a jump inside depth nested if arms; in the arm at level sibling_at the inner
\* if is followed by a loop of its own
RECURSIVE IfChain(_, _, _)
IfChain(depth, jump, sibling_at) ==
    IF depth = 0 THEN jump
    ELSE If(BinaryOperation(Identifier("i"), NumberLiteral(1), "CheckEquals"),
            Block(<<IfChain(depth - 1, jump, sibling_at)>>
                    \o (IF sibling_at = depth
                        THEN <<CountingFor("j", 1, Block(<<OpEquals("n", NumberLiteral(1), "Add")>>))>>
                        ELSE <<>>)))

Jumps == {Break, ReturnNode(<<>>)}

\* fn main() { for (let i = 0; i < 2; i = i + 1) { <if chain>; m += 1; } c = 1; }
LoopJumpPrograms ==
    {MainProgram(<<CountingFor("i", 2, Block(<<IfChain(depth, jump, sibling_at),
                                               OpEquals("m", NumberLiteral(1), "Add")>>)),
                   VariableAssignment("c", NumberLiteral(1))>>) :
        depth \in 0..MaxNest, jump \in Jumps, sibling_at \in {0} \cup (2..MaxNest)}

\* fn main() { let i = <v>; <if chain around a return>; c = 1; }
IfReturnPrograms ==
    {MainProgram(<<VariableDeclaration("i", NumberLiteral(v)),
                   IfChain(depth, ReturnNode(<<>>), 0),
                   VariableAssignment("c", NumberLiteral(1))>>) :
        v \in {0, 1}, depth \in 1..MaxNest}

\* fn main() { if (a == b) { return; } c = 1; }
Scenario4 ==
    MainProgram(<<If(BinaryOperation(Identifier("a"), Identifier("b"), "CheckEquals"),
                     Block(<<ReturnNode(<<>>)>>)),
                  VariableAssignment("c", NumberLiteral(1))>>)

\* for (let i = 0; i < 3; i = i + 1) { if (i == 2) { break; } }
Scenario5 ==
    MainProgram(<<CountingFor("i", 3,
                     Block(<<If(BinaryOperation(Identifier("i"), NumberLiteral(2), "CheckEquals"),
                                Block(<<Break>>))>>))>>)

\* fn f(x) { return x + 1; }  fn main() { let y = f(5); }
Scenario3 ==
    MainProgram(<<VariableDeclaration("y", FunctionCall("f", <<NumberLiteral(5)>>))>>)

\* fn main() { let b = !(3 > 4); }
Scenario2 ==
    MainProgram(<<VariableDeclaration("b",
        Unary(BinaryOperation(NumberLiteral(3), NumberLiteral(4), "GreaterThan"), "Not"))>>)

\* fn main() { let x = 1 + 2; }
Scenario1 ==
    MainProgram(<<VariableDeclaration("x",
        BinaryOperation(NumberLiteral(1), NumberLiteral(2), "Add"))>>)

\* fn main() { /say hi; }
Scenario6 == MainProgram(<<CommandLiteral("say hi")>>)

\* for (let i = 0; i < 2; i = i + 1) {
\*     for (let j = 0; j < 2; j = j + 1) { if (j == 0) { break; } }  m += 1; }
NestedBreakProgram ==
    MainProgram(<<CountingFor("i", 2,
                     Block(<<CountingFor("j", 2,
                                Block(<<If(BinaryOperation(Identifier("j"), NumberLiteral(0), "CheckEquals"),
                                           Block(<<Break>>))>>)),
                             OpEquals("m", NumberLiteral(1), "Add")>>))>>)

\* if/else with a jump in the else arm, statement calls, else-if chains after
\* rebranch, nested and consecutive loops, a loop that returns a value
OtherPrograms ==
    {MainProgram(<<VariableDeclaration("i", NumberLiteral(1)),
                   IfElse(BinaryOperation(Identifier("i"), NumberLiteral(1), "CheckEquals"),
                          Block(<<VariableAssignment("c", NumberLiteral(1))>>),
                          Block(<<ReturnNode(<<>>)>>)),
                   VariableAssignment("d", NumberLiteral(2))>>),
     MainProgram(<<VariableDeclaration("i", NumberLiteral(0)),
                   IfElse(BoolLiteral(FALSE),
                          Block(<<ReturnNode(<<>>)>>),
                          Block(<<IfElse(BinaryOperation(Identifier("i"), NumberLiteral(0), "NotEquals"),
                                         Block(<<VariableAssignment("c", NumberLiteral(1))>>),
                                         Block(<<VariableAssignment("c", NumberLiteral(2))>>))>>))>>),
     MainProgram(<<CountingFor("i", 2,
                      Block(<<IfElse(BinaryOperation(Identifier("i"), NumberLiteral(0), "CheckEquals"),
                                     Block(<<OpEquals("m", NumberLiteral(2), "Multiply")>>),
                                     Block(<<Break>>)),
                              OpEquals("m", NumberLiteral(1), "Add")>>))>>),
     MainProgram(<<FunctionCall("f", <<NumberLiteral(5)>>),
                   FunctionCall("g", <<NumberLiteral(1), NumberLiteral(2)>>),
                   FunctionCall("h", <<>>)>>),
     MainProgram(<<StructDefinition("s"), TypedIdentifier("t"),
                   VariableDeclaration("x", NumberLiteral(7)),
                   OpEquals("x", NumberLiteral(2), "Divide"),
                   OpEquals("x", NumberLiteral(2), "Modulo"),
                   OpEquals("x", NumberLiteral(3), "Subtract")>>),
     NestedBreakProgram,
     MainProgram(<<CountingFor("i", 2,
                      Block(<<If(BinaryOperation(Identifier("i"), NumberLiteral(0), "CheckEquals"),
                                 Block(<<Break>>))>>)),
                   CountingFor("k", 2, Block(<<OpEquals("m", NumberLiteral(1), "Add")>>))>>),
     Program(<<FunctionDeclaration("h",
                   Block(<<CountingFor("i", 2, Block(<<ReturnNode(<<Identifier("i")>>)>>)),
                           ReturnNode(<<NumberLiteral(7)>>)>>)),
               FunctionDeclaration("main",
                   Block(<<VariableDeclaration("r", FunctionCall("h", <<>>))>>))>>)}

\* fn main() { let RETFLAG = 2; }: a local that bears the name of a flag register
FlagNamePrograms ==
    {MainProgram(<<VariableDeclaration("RETFLAG", NumberLiteral(2))>>)}

\* fn main() { let i = <vi>; if (i == 1) { c = <vc>; } else { d = 1; } }
BranchPrograms ==
    {MainProgram(<<VariableDeclaration("i", NumberLiteral(vi)),
                   IfElse(BinaryOperation(Identifier("i"), NumberLiteral(1), "CheckEquals"),
                          Block(<<VariableAssignment("c", NumberLiteral(vc))>>),
                          Block(<<VariableAssignment("d", NumberLiteral(1))>>))>>) :
        vi \in {0, 1}, vc \in Vals}

\* for (let i = 0; i < 2; i = i + 1) { if (i == 0) { break; } }
\* for (let k = 0; k < 2; k = k + 1) { if (k == 5) { break; } m += 1; }
StaleBreakProgram ==
    MainProgram(<<CountingFor("i", 2,
                     Block(<<If(BinaryOperation(Identifier("i"), NumberLiteral(0), "CheckEquals"),
                                Block(<<Break>>))>>)),
                  CountingFor("k", 2,
                     Block(<<If(BinaryOperation(Identifier("k"), NumberLiteral(5), "CheckEquals"),
                                Block(<<Break>>)),
                             OpEquals("m", NumberLiteral(1), "Add")>>))>>)

\* fn main() { if (<va> <op> <vb>) { c = 1; } }
IfComparisonPrograms ==
    {MainProgram(<<If(BinaryOperation(NumberLiteral(va), NumberLiteral(vb), op),
                      Block(<<VariableAssignment("c", NumberLiteral(1))>>))>>) :
        va \in Vals, vb \in Vals, op \in ComparisonOps}

Programs ==
    {Scenario1, Scenario2, Scenario3, Scenario4, Scenario5, Scenario6, StaleBreakProgram}
        \cup ExpressionPrograms \cup VariableComparisonPrograms
        \cup LoopJumpPrograms \cup IfReturnPrograms \cup OtherPrograms
        \cup FlagNamePrograms \cup BranchPrograms \cup IfComparisonPrograms

----------------------------------------------------------------------------
(* The specification. *)

\* the lists of at most MaxErrs errors, told apart by their place
ErrorLists(prefix) ==
    {[i \in 1..n |-> format_indexed(prefix, i)] : n \in 0..MaxErrs}

Init ==
    /\ ast \in Programs
    /\ unfinished_functions = <<>>
    /\ ready_functions = <<>>
    /\ eval_stacks = <<>>
    /\ bin_op_depth = 0
    /\ flag_tmp_count = 0
    /\ loop_depth = 0
    /\ propagate_return = FALSE
    /\ propagate_break = FALSE
    /\ anon_count = 0
    /\ frames = <<Frame(ast)>>
    /\ last_stack = flush_finish(FlushState(EvaluationStack_new(scoreboard(""), 0), <<0>>))
    /\ event = NoEvent
    /\ origin = <<>>
    /\ phase = "start"
    /\ parse_errs \in ErrorLists("parse error ")
    /\ validation_errs \in ErrorLists("validation error ")
    /\ errors = <<>>
    /\ rebranched = FALSE
    /\ regs = <<>>
    /\ rt_stack = <<>>
    /\ run_steps = 0

Next ==
    \/ compile_src_check
    \/ visit_number
    \/ visit_bool
    \/ visit_identifier
    \/ visit_binary_operation
    \/ visit_op_equals
    \/ visit_unary
    \/ visit_variable_assignment
    \/ visit_program
    \/ visit_block
    \/ visit_function_declaration
    \/ visit_function_call
    \/ visit_return
    \/ visit_command_literal
    \/ visit_break
    \/ visit_nothing
    \/ visit_if
    \/ visit_for
    \/ visit_node
    \/ compile_src
    \/ run_start
    \/ run_command
    \/ run_function_end

Spec == Init /\ [][Next]_vars

----------------------------------------------------------------------------
(* What the properties below speak of. *)

RECURSIVE contains_return(_)
contains_return(node) ==
    \/ node.kind = "Return"
    \/ \E i \in 1..Len(node.kids) : contains_return(node.kids[i])

\* a break that belongs to the enclosing loop: reached through blocks and if
\* arms only, not through the body of a loop of its own
RECURSIVE contains_break_in_arms(_)
contains_break_in_arms(node) ==
    \/ node.kind = "Break"
    \/ /\ node.kind = "Block"
       /\ \E i \in 1..Len(node.kids) : contains_break_in_arms(node.kids[i])
    \/ /\ node.kind = "If"
       /\ \E i \in 2..Len(node.kids) : contains_break_in_arms(node.kids[i])

is_guarded_call(action, func_name) ==
    /\ action.type \in {"ExecuteIf", "ExecuteUnless"}
    /\ action.then = CallFunction(resource_location(func_name))

return_guard(func) ==
    ExecuteIf(score_matches(ScoreboardEntry_new(func.scoreboard, "RETFLAG"), "1"), Return)

break_guard(func, depth) ==
    ExecuteIf(score_matches(ScoreboardEntry_new(func.scoreboard,
                                                format_indexed("BREAKFLAG", depth)), "1"),
              Return)

\* the function that calls func_name holds guard right after a guarded call to it
guard_follows_call(func_name, guard) ==
    LET caller == ready_functions[origin[func_name].parent]
    IN \E i \in 1..(Len(caller.actions) - 1) :
          /\ is_guarded_call(caller.actions[i], func_name)
          /\ caller.actions[i + 1] = guard

\* the function that calls func_name holds guard somewhere after a guarded call to it
guard_after_call(func_name, guard) ==
    LET caller == ready_functions[origin[func_name].parent]
    IN \E i \in 1..Len(caller.actions) : \E j \in (i + 1)..Len(caller.actions) :
          /\ is_guarded_call(caller.actions[i], func_name)
          /\ caller.actions[j] = guard

main_statements ==
    LET decl == CHOOSE d \in {ast.kids[i] : i \in 1..Len(ast.kids)} :
                    d.kind = "FunctionDeclaration" /\ d.name = "main"
    IN decl.kids[1].kids

\* the expression of the last statement of main, a declaration of r
declared_expression == main_statements[Len(main_statements)].kids[1]

declares_r ==
    /\ main_statements # <<>>
    /\ main_statements[Len(main_statements)].kind = "VariableDeclaration"
    /\ main_statements[Len(main_statements)].name = "r"

is_leaf(node) == node.kind \in {"NumberLiteral", "BoolLiteral", "Identifier"}

is_leaf_comparison(node) ==
    /\ node.kind = "Operation"
    /\ node.op \in ComparisonOps
    /\ is_leaf(node.kids[1])
    /\ is_leaf(node.kids[2])

main_register(player) == ScoreboardEntry_new(scoreboard("main"), player)

\* the value a leaf of main holds once the program has run
leaf_value(node) ==
    IF node.kind = "Identifier" THEN read(regs, main_register(node.name)) ELSE node.num

comparison_holds(op, a, b) ==
    CASE op = "GreaterThan" -> a > b
      [] op = "LessThan" -> a < b
      [] op = "GreaterThanOrEquals" -> a >= b
      [] op = "LessThanOrEquals" -> a =< b
      [] op = "CheckEquals" -> a = b
      [] op = "NotEquals" -> a # b

leaf_comparison_holds(node) ==
    comparison_holds(node.op, leaf_value(node.kids[1]), leaf_value(node.kids[2]))

flushed == event.type = "flush"

\* the places of the plain CallFunction actions of one flush that take arguments
calls_with_arguments(actions) ==
    {j \in 1..Len(actions) :
        /\ actions[j].type = "CallFunction"
        /\ func_signatures[actions[j].target.path].params # <<>>}

argument_temporaries(actions, j) ==
    {actions[j - k].second : k \in 1..Len(func_signatures[actions[j].target.path].params)}

----------------------------------------------------------------------------
(* Properties. *)

\* C1: when the then-body or else-body of an if contains a return, the function
\* holding the if has, directly after the guarded call to that arm's anonymous
\* function, the guard ExecuteIf{"score RETFLAG matches 1", Return}.
C1_ReturnGuardFollowsArmCall ==
    phase = "ready" =>
        \A name \in DOMAIN origin :
            (origin[name].role \in {"then", "else"} /\ contains_return(origin[name].node))
                => guard_follows_call(name,
                       return_guard(ready_functions[origin[name].parent]))

\* C2: for a comparison of two leaves, once the emitted actions have run the
\* left operand's temporary (TMP1) is 1 if the comparison holds and 0 if not.
C2_LeafComparisonYieldsBoolean ==
    (halted /\ declares_r /\ is_leaf_comparison(declared_expression)) =>
        read(regs, main_register(format_indexed("TMP", 1))) =
            (IF leaf_comparison_holds(declared_expression) THEN 1 ELSE 0)

\* C3 as stated: after a complete flush the returned index is still live, the
\* free list holding exactly the indices 1..max_tmps except the returned one.
C3_ReturnedIndexStaysLive ==
    flushed =>
        /\ Len(last_stack.remaining) = 1
        /\ {last_stack.stack.available_tmps[i] :
               i \in 1..Len(last_stack.stack.available_tmps)}
             = (1..last_stack.stack.max_tmps) \ {last_stack.result}

\* C3 amended: after a complete flush exactly one index is left on the working
\* stack and returned, and it has been freed with the others: the free list
\* holds every index 1..max_tmps exactly once, the returned index among them.
C3_FlushFreesEveryIndex ==
    flushed =>
        /\ Len(last_stack.remaining) = 1
        /\ Len(last_stack.stack.available_tmps) = last_stack.stack.max_tmps
        /\ {last_stack.stack.available_tmps[i] :
               i \in 1..Len(last_stack.stack.available_tmps)}
             = 1..last_stack.stack.max_tmps
        /\ last_stack.result \in 1..last_stack.stack.max_tmps

\* a flush that used three temporaries has just ended
C3_Witness ==
    flushed /\ last_stack.stack.max_tmps >= 3

\* C4: when a break lies inside nested if arms of a loop body at depth d, every
\* function that calls an arm on the path to the break has, directly after its
\* guarded call to that arm, the guard ExecuteIf{"score BREAKFLAG<d> matches 1", Return}.
C4_BreakGuardFollowsEveryArmCall ==
    phase = "ready" =>
        \A name \in DOMAIN origin :
            (/\ origin[name].role \in {"then", "else"}
             /\ origin[name].loop_depth >= 1
             /\ contains_break_in_arms(origin[name].node))
                => guard_follows_call(name,
                       break_guard(ready_functions[origin[name].parent],
                                   origin[name].loop_depth))

\* C5: when the body of a for loop contains a return, the function enclosing
\* the loop holds, after the entry guard that calls the loop function, the
\* guard ExecuteIf{"score RETFLAG matches 1", Return}.
C5_ReturnGuardFollowsLoopEntry ==
    phase = "ready" =>
        \A name \in DOMAIN origin :
            (origin[name].role = "loop" /\ contains_return(origin[name].node))
                => guard_after_call(name,
                       return_guard(ready_functions[origin[name].parent]))

\* C6 as stated: whenever a visit_node call returns, propagate_break is false.
C6_VisitNodeClearsBreakLatch ==
    event.type = "visit_node_return" => ~propagate_break

\* C6 amended: visit_node clears propagate_return only; it leaves propagate_break
\* as it found it, and only the end of visit_for clears propagate_break, so a
\* break latched while visiting one node is still latched when a later sibling
\* is visited unless a loop was lowered in between.
C6_OnlyLoopExitClearsBreakLatch ==
    [][/\ event'.type = "visit_node_return" => propagate_break' = propagate_break
       /\ (propagate_break /\ ~propagate_break') => at("For", "cond2")]_vars

\* the visit of an if whose arm holds a break has returned and the latch is set
C6_Witness ==
    /\ event.type = "visit_node_return"
    /\ event.kind = "If"
    /\ propagate_break

\* C7: after any visit_node call returns, whatever the node's kind,
\* propagate_return is false.
C7_VisitNodeClearsReturnLatch ==
    event.type = "visit_node_return" => ~propagate_return

\* the visit_node call of a Return node has returned
C7_Witness ==
    /\ event.type = "visit_node_return"
    /\ event.kind = "Return"

\* C8 as stated: the temporary that receives RET is different from every
\* argument temporary of the call.
C8_ReturnTemporaryIsFresh ==
    flushed =>
        \A j \in calls_with_arguments(last_stack.stack.actions) :
            last_stack.stack.actions[j + 1].first
                \notin argument_temporaries(last_stack.stack.actions, j)

\* C8 amended: the argument temporaries are freed before the temporary of RET is
\* reserved, so RET is copied into the temporary of the call's last argument;
\* for let y = f(5) the argument is in TMP1, RET of f is copied into TMP1 and y
\* is assigned from TMP1.
C8_ReturnTemporaryIsLastArgument ==
    /\ flushed =>
          \A j \in calls_with_arguments(last_stack.stack.actions) :
              /\ last_stack.stack.actions[j + 1].type = "SetVariableToVariable"
              /\ last_stack.stack.actions[j + 1].second =
                     ScoreboardEntry_new(
                         with_separator(last_stack.stack.actions[j].target, "."), "RET")
              /\ last_stack.stack.actions[j + 1].first =
                     last_stack.stack.actions[j - 1].second
    /\ (ast = Scenario3 /\ phase = "ready") =>
          ready_functions["main"].actions =
              <<SetVariableToNumber(main_register("TMP1"), 5),
                SetVariableToVariable(ScoreboardEntry_new(scoreboard("f"), "x"),
                                      main_register("TMP1")),
                CallFunction(resource_location("f")),
                SetVariableToVariable(main_register("TMP1"),
                                      ScoreboardEntry_new(scoreboard("f"), "RET")),
                SetVariableToVariable(main_register("y"), main_register("TMP1"))>>

\* a flush has lowered a call that takes two arguments
C8_Witness ==
    /\ flushed
    /\ \E j \in calls_with_arguments(last_stack.stack.actions) :
          Len(func_signatures[last_stack.stack.actions[j].target.path].params) = 2

\* C9: for every well-formed expression flush returns the first temporary the
\* stack ever reserved, min_tmp + 1, that is TMP1.
C9_FlushReturnsFirstTemporary ==
    flushed => last_stack.result = 1

\* C10: !e is the negation of a boolean e, also when e is a comparison of two
\* leaves: once the actions emitted for 1 - e have run, the result temporary
\* (TMP1) is 1 when e is false and 0 when e is true.
C10_NotNegatesComparison ==
    (/\ halted
     /\ declares_r
     /\ declared_expression.kind = "Unary"
     /\ declared_expression.op = "Not"
     /\ is_leaf_comparison(declared_expression.kids[1])) =>
        read(regs, main_register(format_indexed("TMP", 1))) =
            (IF leaf_comparison_holds(declared_expression.kids[1]) THEN 0 ELSE 1)

\* the elements of a sequence
elements(seq) == {seq[i] : i \in 1..Len(seq)}

\* the flush of stack just before its k-th instruction is handled
flush_before(stack, k) ==
    flush_loop(FlushState(stack, <<>>), SubSeq(stack.instructions, 1, k - 1))

\* the flush of stack just after its k-th instruction is handled
flush_after(stack, k) ==
    flush_instruction(flush_before(stack, k), stack.instructions[k])

\* the actions the k-th instruction of stack emits
emitted_by(stack, k) ==
    SubSeq(flush_after(stack, k).stack.actions,
           Len(flush_before(stack, k).stack.actions) + 1,
           Len(flush_after(stack, k).stack.actions))

\* the places of the instructions of one type in the open evaluation stacks
pending(type) ==
    UNION {{<<i, k>> : k \in {j \in DOMAIN eval_stacks[i].instructions :
                                eval_stacks[i].instructions[j].type = type}} :
           i \in DOMAIN eval_stacks}

dotted(func, player) == ScoreboardEntry_new(with_separator(func, "."), player)

\* C11: a CallFunction instruction with n parameter names takes the last n
\* indices of the working stack in push order and emits exactly n copies of the
\* argument temporaries into the callee's parameters, in order, then
\* CallFunction, then one copy of the callee's RET into a reserved temporary
\* that is pushed on the working stack; every argument index is freed before
\* that temporary is reserved.
C11_CallEmitsCopiesCallAndRet ==
    \A p \in pending("CallFunction") :
        LET stack == eval_stacks[p[1]]
            instr == stack.instructions[p[2]]
            before == flush_before(stack, p[2])
            after == flush_after(stack, p[2])
            new == emitted_by(stack, p[2])
            n == Len(instr.args)
            m == Len(before.intermediate_tmps)
            arg_tmps == SubSeq(before.intermediate_tmps, m - n + 1, m)
            released == before.stack.available_tmps \o arg_tmps
            r == after.intermediate_tmps[Len(after.intermediate_tmps)]
        IN /\ m >= n
           /\ Len(new) = n + 2
           /\ \A i \in 1..n :
                 new[i] = SetVariableToVariable(dotted(instr.func, instr.args[i]),
                                                stack_get_tmp(stack, arg_tmps[i]))
           /\ new[n + 1] = CallFunction(instr.func)
           /\ new[n + 2] = SetVariableToVariable(stack_get_tmp(stack, r),
                                                 dotted(instr.func, "RET"))
           /\ after.intermediate_tmps = SubSeq(before.intermediate_tmps, 1, m - n) \o <<r>>
           /\ IF released = <<>>
              THEN r = before.stack.max_tmps + 1 /\ after.stack.available_tmps = <<>>
              ELSE /\ r = released[Len(released)]
                   /\ after.stack.available_tmps = SubSeq(released, 1, Len(released) - 1)

\* a call with two arguments is waiting to be flushed below another operand
C11_Witness ==
    \E p \in pending("CallFunction") :
        /\ Len(eval_stacks[p[1]].instructions[p[2]].args) = 2
        /\ Len(flush_before(eval_stacks[p[1]], p[2]).intermediate_tmps) > 2

ArithmeticActions == {"AddVariables", "SubtractVariables", "MultiplyVariables",
                      "DivideVariables", "ModuloVariables"}

\* C12: for every Operation instruction the right operand's index b is popped
\* and the left operand's index a stays on the working stack: the arithmetic
\* primitive emitted has TMP<a> as destination and TMP<b> as source (a
\* comparison's conditional write that follows it writes TMP<a> too), then b is
\* put on the free list and a stays live; let x = 1 + 2 gives TMP1 := 1,
\* TMP2 := 2, TMP1 += TMP2, x := TMP1.
C12_OperationKeepsLeftOperand ==
    /\ \A p \in pending("Operation") :
          LET stack == eval_stacks[p[1]]
              before == flush_before(stack, p[2])
              after == flush_after(stack, p[2])
              new == emitted_by(stack, p[2])
              m == Len(before.intermediate_tmps)
              a == before.intermediate_tmps[m - 1]
              b == before.intermediate_tmps[m]
          IN /\ m >= 2
             /\ Len(new) \in {1, 2}
             /\ new[1].type \in ArithmeticActions
             /\ new[1].first = stack_get_tmp(stack, a)
             /\ new[1].second = stack_get_tmp(stack, b)
             /\ \A i \in 2..Len(new) :
                   /\ new[i].type \in {"ExecuteIf", "ExecuteUnless"}
                   /\ new[i].then = SetVariableToNumber(stack_get_tmp(stack, a), 1)
             /\ after.intermediate_tmps = SubSeq(before.intermediate_tmps, 1, m - 1)
             /\ after.stack.available_tmps = Append(before.stack.available_tmps, b)
             /\ a \notin elements(after.stack.available_tmps)
    /\ (ast = Scenario1 /\ phase = "ready") =>
          ready_functions["main"].actions =
              <<SetVariableToNumber(main_register("TMP1"), 1),
                SetVariableToNumber(main_register("TMP2"), 2),
                AddVariables(main_register("TMP1"), main_register("TMP2")),
                SetVariableToVariable(main_register("x"), main_register("TMP1"))>>

\* an operation that follows an earlier one is waiting to be flushed, the free
\* list already holding a released index
C12_Witness ==
    \E p \in pending("Operation") :
        /\ p[2] > 3
        /\ eval_stacks[p[1]].instructions[p[2] - 1].type # "Operation"
        /\ Len(flush_before(eval_stacks[p[1]], p[2]).stack.available_tmps) > 0

\* the actions of the function being built
building == current_function(unfinished_functions).actions

\* C13: visit_return emits, only when an expression is present, the
\* expression's actions followed by SetVariableToVariable{RET, TMP<t>}; then
\* always SetVariableToNumber{RETFLAG, 1}; then Return.  A return with no
\* expression emits exactly those two actions and no write to RET.
C13_ReturnEmitsValueFlagReturn ==
    [][/\ at("Return", "value") =>
             /\ last_stack'.stack.actions # <<>>
             /\ building' =
                   ((building \o last_stack'.stack.actions)
                      \o <<SetVariableToVariable(
                              local_variable(unfinished_functions, "RET"),
                              get_tmp(unfinished_functions, last_stack'.result))>>)
                      \o <<SetVariableToNumber(
                              local_variable(unfinished_functions, "RETFLAG"), 1),
                           Return>>
       /\ (at("Return", "enter") /\ top.node.kids # <<>>) =>
             unfinished_functions' = unfinished_functions
       /\ (at("Return", "enter") /\ top.node.kids = <<>>) =>
             building' = building
                 \o <<SetVariableToNumber(
                         local_variable(unfinished_functions, "RETFLAG"), 1),
                      Return>>]_vars

\* a return with an expression that holds an operation has just been lowered
C13_Witness ==
    /\ phase = "compile"
    /\ frames # <<>>
    /\ top.node.kind = "Return"
    /\ top.pc = "exit"
    /\ top.node.kids # <<>>
    /\ Len(last_stack.stack.actions) > 1

\* the functions built by visit_function_declaration that are ready
declared_functions == {name \in DOMAIN ready_functions : name \in DOMAIN func_signatures}

retflag_reset(func) ==
    SetVariableToNumber(ScoreboardEntry_new(func.scoreboard, "RETFLAG"), 0)

sculk_main_actions == ready_functions["_sculkmain"].actions

\* the places of the CreateStorage actions of _sculkmain
storage_places ==
    {i \in DOMAIN sculk_main_actions : sculk_main_actions[i].type = "CreateStorage"}

storage_of(name) == CreateStorage(to_string(ResourceLocation_scoreboard(namespace, name)))

\* C15: once compile_src is done, _sculkmain holds exactly one CreateStorage for
\* each ready function that is neither anonymous nor _sculkmain, naming that
\* function's scoreboard, and none for an anonymous function or for _sculkmain.
C15_OneStoragePerDeclaredFunction ==
    phase \in {"ready", "run"} =>
        /\ \A name \in DOMAIN ready_functions :
              LET func == ready_functions[name]
                  places == {i \in storage_places :
                                sculk_main_actions[i] = storage_of(func.name)}
              IN IF func.is_anonymous \/ name = "_sculkmain"
                 THEN places = {}
                 ELSE /\ Cardinality(places) = 1
                      /\ storage_of(func.name) = CreateStorage(to_string(func.scoreboard))
        /\ \A i \in storage_places :
              \E name \in DOMAIN ready_functions :
                  /\ ~ready_functions[name].is_anonymous
                  /\ name # "_sculkmain"
                  /\ sculk_main_actions[i] = storage_of(name)

\* compile_src is done for a program with two declared functions and an
\* anonymous one
C15_Witness ==
    /\ phase = "ready"
    /\ Cardinality(declared_functions) >= 2
    /\ \E name \in DOMAIN ready_functions : ready_functions[name].is_anonymous

\* C16: once compile_src is done, _sculkmain is in ready_functions, its last
\* action is CallFunction{<namespace>:main} and every CreateStorage action comes
\* before it.
C16_SculkMainEndsWithCallOfMain ==
    phase \in {"ready", "run"} =>
        /\ "_sculkmain" \in DOMAIN ready_functions
        /\ sculk_main_actions # <<>>
        /\ sculk_main_actions[Len(sculk_main_actions)] =
               CallFunction(ResourceLocation_new(namespace, "main"))
        /\ \A i \in storage_places : i < Len(sculk_main_actions)
        /\ storage_places = 1..(Len(sculk_main_actions) - 1)

\* compile_src is done and _sculkmain declares several scoreboards
C16_Witness ==
    /\ phase = "ready"
    /\ "_sculkmain" \in DOMAIN ready_functions
    /\ Cardinality(storage_places) >= 3

\* C17: if the parser or the validator reports an error, compile_src returns
\* Err holding every parse error followed by every validation error, and neither
\* rebranch nor any lowering runs: no function is built, no _sculkmain is
\* assembled; it returns Ok only when both error lists are empty.
C17_ErrorsStopCompilation ==
    /\ (phase # "start" /\ (parse_errs # <<>> \/ validation_errs # <<>>)) =>
          /\ phase = "failed"
          /\ Len(errors) = Len(parse_errs) + Len(validation_errs)
          /\ \A i \in 1..Len(parse_errs) : errors[i] = CompileError_Parse(parse_errs[i])
          /\ \A i \in 1..Len(validation_errs) :
                errors[Len(parse_errs) + i] = CompileError_Validate(validation_errs[i])
          /\ ~rebranched
          /\ unfinished_functions = <<>>
          /\ ready_functions = <<>>
          /\ eval_stacks = <<>>
          /\ frames = <<Frame(ast)>>
    /\ phase \in {"compile", "ready", "run"} =>
          /\ parse_errs = <<>>
          /\ validation_errs = <<>>
          /\ errors = <<>>
          /\ rebranched
    /\ phase = "failed" => errors # <<>>

\* compile_src has returned Err for an input with parse and validation errors
C17_Witness ==
    /\ phase = "failed"
    /\ Len(parse_errs) >= 1
    /\ Len(validation_errs) >= 2

FlagNames == {"RETFLAG"} \cup {format_indexed("BREAKFLAG", k) : k \in 0..(MaxNest + 3)}

\* the action a command carries out once its execute conditions hold
RECURSIVE effect(_)
effect(action) ==
    IF action.type \in {"ExecuteIf", "ExecuteUnless"} THEN effect(action.then) ELSE action

\* the register an action writes, if it writes one
writes(action) ==
    CASE effect(action).type = "SetVariableToNumber" -> {effect(action).var}
      [] effect(action).type \in ArithmeticActions \cup {"SetVariableToVariable"} ->
            {effect(action).first}
      [] OTHER -> {}

\* C18: every emitted action that writes RETFLAG or BREAKFLAG<k> is a
\* SetVariableToNumber with value 0 or 1, and while the emitted functions run
\* these registers hold only 0 or 1.
C18_FlagsHoldZeroOrOne ==
    /\ \A name \in DOMAIN ready_functions :
          \A i \in DOMAIN ready_functions[name].actions :
              LET action == ready_functions[name].actions[i]
              IN (\E entry \in writes(action) : entry.player \in FlagNames) =>
                    /\ effect(action).type = "SetVariableToNumber"
                    /\ effect(action).val \in {0, 1}
    /\ \A entry \in DOMAIN regs :
          entry.player \in FlagNames => regs[entry] \in {0, 1}

\* the function that holds the if being lowered, while its arm is on top
enclosing == unfinished_functions[Len(unfinished_functions) - 1]

\* C19: for an if with no else-body the jump accounting runs once: when a break
\* is pending after the then-body, the current function gains the guarded call
\* to the then-function followed by exactly one guard
\* ExecuteIf{"score BREAKFLAG<loop_depth> matches 1", Return}.
C19_OneBreakGuardAfterThenCall ==
    [][(at("If", "body") /\ Len(top.node.kids) = 2 /\ propagate_break) =>
          LET before == enclosing.actions
              after == current_function(unfinished_functions').actions
              new == SubSeq(after, Len(before) + 1, Len(after))
          IN /\ new # <<>>
             /\ is_guarded_call(new[1], top.name)
             /\ Cardinality({i \in DOMAIN new :
                                new[i] = break_guard(enclosing, loop_depth)}) = 1]_vars

ExpressionKinds == {"NumberLiteral", "BoolLiteral", "Identifier", "Operation", "Unary"}

StatementKinds == {"Program", "FunctionDeclaration", "Block", "VariableDeclaration",
                   "VariableAssignment", "OpEquals", "Return", "If", "For", "Break",
                   "CommandLiteral", "TypedIdentifier", "StructDefinition"}

\* the node on top is visited as a statement: it is of a statement kind, or it
\* is a call that stands directly in a block
in_statement_position ==
    \/ top.node.kind \in StatementKinds
    \/ /\ top.node.kind = "FunctionCall"
       /\ Len(frames) > 1
       /\ frames[Len(frames) - 1].node.kind \in {"Block", "Program"}

\* the node on top is visited as part of an expression
in_expression_position ==
    \/ top.node.kind \in ExpressionKinds
    \/ top.node.kind = "FunctionCall" /\ ~in_statement_position

\* C20: eval_stacks never holds more than one EvaluationStack; it is empty
\* whenever a statement node starts or finishes being visited; a call inside an
\* expression pushes its instruction onto the enclosing stack instead of
\* opening a new one; push_eval_instr is never reached with eval_stacks empty.
C20_OneEvaluationStackAtATime ==
    /\ [](/\ Len(eval_stacks) <= 1
          /\ (phase = "compile" /\ frames # <<>>) =>
                /\ (in_statement_position /\ top.pc \in {"enter", "exit"}) =>
                      eval_stacks = <<>>
                /\ (in_expression_position /\ top.pc # "exit") => Len(eval_stacks) = 1
                /\ (top.node.kind = "FunctionCall" /\ top.pc = "args") =>
                      Len(eval_stacks) = 1)
    /\ [][(phase = "compile" /\ frames # <<>> /\ top.node.kind = "FunctionCall"
              /\ in_expression_position /\ top.pc # "exit") =>
             /\ Len(eval_stacks') = 1
             /\ Len(frames') = Len(frames) =>
                   \/ eval_stacks' = eval_stacks
                   \/ eval_stacks' = push_eval_instr(eval_stacks,
                          CallFunctionInstr(resource_location(top.node.name),
                                            func_signatures[top.node.name].params))]_vars

\* a call that is an argument of another call inside an expression is about to
\* push its instruction onto the one open stack
C20_Witness ==
    /\ phase = "compile"
    /\ Len(frames) > 2
    /\ top.node.kind = "FunctionCall"
    /\ top.pc = "args"
    /\ top.i > Len(top.node.kids)
    /\ frames[Len(frames) - 1].node.kind = "FunctionCall"
    /\ Len(eval_stacks) = 1
    /\ Len(eval_stacks[1].instructions) >= 2

\* the builders a visit in progress has pushed and not yet popped
holds_builder(frame) ==
    \/ frame.node.kind = "FunctionDeclaration" /\ frame.pc = "end"
    \/ frame.node.kind = "If" /\ frame.pc \in {"body", "else"}
    \/ frame.node.kind = "For" /\ frame.pc \in {"body", "step", "cond1"}

\* the evaluation stacks a visit in progress has begun and not yet ended
holds_stack(frame) ==
    \/ frame.node.kind \in {"OpEquals", "VariableDeclaration", "VariableAssignment"}
          /\ frame.pc = "end"
    \/ frame.node.kind = "Return" /\ frame.pc = "value"
    \/ frame.node.kind = "If" /\ frame.pc = "cond"
    \/ frame.node.kind = "For" /\ frame.pc \in {"cond1", "cond2"}
    \/ frame.node.kind = "FunctionCall" /\ frame.pc = "args" /\ frame.flag

\* the loops a visit in progress has entered and not yet left
holds_loop(frame) ==
    frame.node.kind = "For" /\ frame.pc \in {"init", "body", "step", "cond1", "cond2"}

\* the visits in progress that satisfy held
held_by(held(_)) == Cardinality({k \in DOMAIN frames : held(frames[k])})

\* the step pops the builder on top (and may push another in its place)
pops_builder ==
    \/ Len(unfinished_functions') < Len(unfinished_functions)
    \/ /\ unfinished_functions # <<>>
       /\ Len(unfinished_functions') = Len(unfinished_functions)
       /\ current_function(unfinished_functions').name
              # current_function(unfinished_functions).name

\* the place of the builder that is on top once the step has popped, if it pops
emit_place == Len(unfinished_functions) - (IF pops_builder THEN 1 ELSE 0)

is_prefix(short, long) ==
    Len(short) <= Len(long) /\ SubSeq(long, 1, Len(short)) = short

\* the name of the builder the visit on top pushes or pops
visit_builder_name ==
    IF top.node.kind = "FunctionDeclaration" THEN top.node.name ELSE top.name

\* C21: what a visit_node call has pushed it pops before it returns: the length
\* of unfinished_functions, the length of eval_stacks and loop_depth are at every
\* moment what the visits in progress account for, so a visit that is entered or
\* has reached its end (and holds nothing) leaves the three as they were on its
\* entry; a builder is popped into ready_functions by the visit that pushed it;
\* actions are only appended to the builder on top; after the walk
\* unfinished_functions and eval_stacks are empty and loop_depth is 0.
C21_VisitsAreBalanced ==
    /\ [](phase = "compile" =>
            /\ Len(unfinished_functions) = held_by(holds_builder)
            /\ Len(eval_stacks) = held_by(holds_stack)
            /\ loop_depth = held_by(holds_loop)
            /\ \A k \in DOMAIN frames :
                  frames[k].pc = "exit" \/ (frames[k].pc = "enter" /\ frames[k].i = 1) =>
                     /\ ~holds_builder(frames[k])
                     /\ ~holds_stack(frames[k])
                     /\ ~holds_loop(frames[k]))
    /\ [](phase \in {"ready", "run"} \/ (phase = "compile" /\ frames = <<>>) =>
            /\ unfinished_functions = <<>>
            /\ eval_stacks = <<>>
            /\ loop_depth = 0)
    /\ [][phase = "compile" /\ frames # <<>> =>
            /\ pops_builder =>
                  /\ holds_builder(top)
                  /\ current_function(unfinished_functions).name = visit_builder_name
                  /\ visit_builder_name \in DOMAIN ready_functions'
                  /\ is_prefix(current_function(unfinished_functions).actions,
                               ready_functions'[visit_builder_name].actions)
            /\ (Len(unfinished_functions') > emit_place) =>
                  /\ Len(unfinished_functions') = emit_place + 1
                  /\ holds_builder(frames'[Len(frames)])
                  /\ current_function(unfinished_functions').name =
                         (IF top.node.kind = "FunctionDeclaration"
                          THEN top.node.name ELSE frames'[Len(frames)].name)
            /\ \A j \in 1..emit_place :
                  IF j < emit_place
                  THEN unfinished_functions'[j] = unfinished_functions[j]
                  ELSE /\ is_prefix(unfinished_functions[j].actions,
                                    unfinished_functions'[j].actions)
                       /\ [unfinished_functions'[j] EXCEPT !.actions = <<>>]
                              = [unfinished_functions[j] EXCEPT !.actions = <<>>]]_vars

\* the visit of an if that stands in an arm inside a loop body has just returned
C21_Witness ==
    /\ event.type = "visit_node_return"
    /\ event.kind = "If"
    /\ Len(unfinished_functions) >= 3
    /\ loop_depth >= 1

\* the guarded calls to func_name among actions
guarded_calls(actions, func_name) ==
    {i \in DOMAIN actions : is_guarded_call(actions[i], func_name)}

\* ExecuteIf{"score TMP<tmp> matches 1", CallFunction(func_name)} on a builder's scoreboard
loop_guard(func, tmp, func_name) ==
    ExecuteIf(score_matches(ScoreboardEntry_new(func.scoreboard, format_indexed("TMP", tmp)),
                            "1"),
              CallFunction(resource_location(func_name)))

jump_guards(func, depth) == {return_guard(func), break_guard(func, depth)}

\* C22: visit_for visits init, pushes the loop function L empty, visits body,
\* then step, then cond on a fresh stack; L ends with that evaluation's actions
\* and ExecuteIf{"score TMP<tc1> matches 1", CallFunction(L)} and is put in
\* ready_functions; cond is then visited a second time on a fresh stack and the
\* enclosing function gains that evaluation's actions followed by
\* ExecuteIf{"score TMP<tc2> matches 1", CallFunction(L)}.  No other guarded
\* call to L is emitted.
C22_ForLowersConditionTwice ==
    /\ [][/\ at("For", "enter") =>
                /\ frames'[Len(frames')].node = top.node.kids[1]
                /\ unfinished_functions' = unfinished_functions
          /\ at("For", "init") =>
                /\ frames'[Len(frames')].node = top.node.kids[4]
                /\ pop(unfinished_functions') = unfinished_functions
                /\ building' = <<>>
                /\ current_function(unfinished_functions').name \notin DOMAIN ready_functions
          /\ at("For", "body") =>
                /\ frames'[Len(frames')].node = top.node.kids[3]
                /\ unfinished_functions' = unfinished_functions
          /\ at("For", "step") =>
                /\ frames'[Len(frames')].node = top.node.kids[2]
                /\ unfinished_functions' = unfinished_functions
                /\ eval_stacks' = <<EvaluationStack_new(enclosing.scoreboard, 0)>>
          /\ at("For", "cond1") =>
                /\ frames'[Len(frames')].node = top.node.kids[2]
                /\ current_function(unfinished_functions).name = top.name
                /\ last_stack'.stack.actions # <<>>
                /\ ready_functions'[top.name].actions =
                       (building \o last_stack'.stack.actions)
                          \o <<loop_guard(enclosing, last_stack'.result, top.name)>>
                /\ unfinished_functions' = pop(unfinished_functions)
                /\ eval_stacks' = <<EvaluationStack_new(enclosing.scoreboard, 0)>>
          /\ at("For", "cond2") =>
                /\ top.name \in DOMAIN ready_functions
                /\ ready_functions' = ready_functions
                /\ last_stack'.stack.actions = last_stack.stack.actions
                /\ LET func == current_function(unfinished_functions)
                       grown == (building \o last_stack'.stack.actions)
                                   \o <<loop_guard(func, last_stack'.result, top.name)>>
                   IN /\ is_prefix(grown, building')
                      /\ \A i \in (Len(grown) + 1)..Len(building') :
                            building'[i] \in jump_guards(func, loop_depth)]_vars
    /\ [](phase = "ready" =>
            \A name \in DOMAIN origin :
                origin[name].role = "loop" =>
                    LET loop == ready_functions[name].actions
                        caller == ready_functions[origin[name].parent].actions
                    IN /\ guarded_calls(loop, name) = {Len(loop)}
                       /\ Cardinality(guarded_calls(caller, name)) = 1
                       /\ \A other \in DOMAIN ready_functions \ {name, origin[name].parent} :
                             guarded_calls(ready_functions[other].actions, name) = {})

\* a loop whose body and step both emitted actions has been lowered
C22_Witness ==
    /\ phase = "compile"
    /\ frames # <<>>
    /\ top.node.kind = "For"
    /\ top.pc = "exit"
    /\ Len(ready_functions[top.name].actions) >= 8
    /\ Len(unfinished_functions) >= 2

BreakFlagNames == FlagNames \ {"RETFLAG"}

\* ExecuteIf{"score BREAKFLAG<k> matches 1", Return}, whatever k and the scoreboard
is_break_guard(action) ==
    /\ action.type = "ExecuteIf"
    /\ action.then = Return
    /\ action.condition.entry.player \in BreakFlagNames

\* the loop functions whose own body holds a break
breaking_loops ==
    {name \in DOMAIN origin :
        origin[name].role = "loop" /\ contains_break_in_arms(origin[name].node)}

\* C23: propagate_break is false whenever visit_for returns, whatever the loop
\* body contained; the jump accounting at the end of visit_for emits no
\* BREAKFLAG guard into the function enclosing the loop, so no BREAKFLAG guard
\* follows the entry guard of a loop whose body breaks; and a break in an inner
\* loop ends the inner loop only: the outer loop goes on with the statements
\* after the inner loop and runs all its iterations.
C23_BreakStaysInInnermostLoop ==
    /\ []((event.type = "visit_node_return" /\ event.kind = "For") => ~propagate_break)
    /\ []((phase = "compile" /\ frames # <<>> /\ top.node.kind = "For" /\ top.pc = "exit")
              => ~propagate_break)
    /\ [][at("For", "cond2") =>
             /\ ~propagate_break'
             /\ is_prefix(building, building')
             /\ \A i \in (Len(building) + 1)..Len(building') :
                   ~is_break_guard(building'[i])]_vars
    /\ [](phase = "ready" =>
             \A name \in breaking_loops :
                 LET caller == ready_functions[origin[name].parent].actions
                 IN \A i \in guarded_calls(caller, name) :
                       i < Len(caller) => ~is_break_guard(caller[i + 1]))
    /\ []((halted /\ ast = NestedBreakProgram) =>
             /\ read(regs, main_register("m")) = 2
             /\ read(regs, main_register("i")) = 2
             /\ read(regs, main_register("j")) = 0
             /\ read(regs, main_register("BREAKFLAG2")) = 1
             /\ read(regs, main_register("BREAKFLAG1")) = 0)

\* the program with a break in its inner loop has been compiled and has run
C23_Witness ==
    /\ halted
    /\ ast = NestedBreakProgram
    /\ \E name \in breaking_loops : origin[name].loop_depth = 2

\* the register has been written while the emitted functions ran
written(entry) == entry \in DOMAIN regs

\* C24: when the actions emitted for an if/else have run, exactly one of the two
\* branch functions was called: for if (i == 1) { c = <vc>; } else { d = 1; }
\* exactly one of c and d has been written, the then-function leaving the
\* condition register as the first guard read it.
C24_ExactlyOneBranchRuns ==
    (halted /\ ast \in BranchPrograms) =>
        (written(main_register("c")) # written(main_register("d")))

\* C25: for an if whose condition is one comparison a OP b of two leaves, the
\* guard "score TMP<tc> matches 1" fires, and the then-function is called, if
\* and only if a OP b holds: for if (<va> OP <vb>) { c = 1; } the register c has
\* been written at the end of the run exactly when va OP vb holds.
C25_GuardFiresIffComparisonHolds ==
    (halted /\ ast \in IfComparisonPrograms) =>
        (written(main_register("c")) <=> leaf_comparison_holds(main_statements[1].kids[1]))

\* the command the running function is about to execute, if it has one left
at_command ==
    /\ phase = "run"
    /\ rt_stack # <<>>
    /\ running.pc <= Len(ready_functions[running.fn].actions)

next_command == ready_functions[running.fn].actions[running.pc]

\* the loop functions whose entry guard the running function is about to execute
entered_loops ==
    {name \in DOMAIN origin :
        /\ origin[name].role = "loop"
        /\ running.fn = origin[name].parent
        /\ is_guarded_call(next_command, name)}

\* C26: a break affects only the loop execution in which it ran: each time the
\* run reaches the entry guard of a loop at depth d, BREAKFLAG<d> is 0, and a
\* loop that follows a loop that broke runs as if no break had happened: after
\* for i { if (i == 0) { break; } } the loop for k < 2 { if (k == 5) { break; }
\* m += 1; } runs its body twice, m = 2.
C26_BreakFlagIsClearAtLoopEntry ==
    /\ at_command =>
          \A name \in entered_loops :
              read(regs, ScoreboardEntry_new(ready_functions[name].scoreboard,
                             format_indexed("BREAKFLAG", origin[name].loop_depth))) = 0
    /\ (halted /\ ast = StaleBreakProgram) =>
          /\ read(regs, main_register("m")) = 2
          /\ read(regs, main_register("k")) = 2

\* a statement call is about to push its instruction and flush
call_about_to_flush ==
    /\ at("FunctionCall", "args")
    /\ top.i > Len(top.node.kids)
    /\ top.flag

\* the evaluation stacks that are open, as they stand and as the next flush finds them
streams ==
    elements(eval_stacks)
        \cup (IF call_about_to_flush
              THEN {push_instruction(eval_stacks[Len(eval_stacks)],
                        CallFunctionInstr(resource_location(top.node.name),
                                          func_signatures[top.node.name].params))}
              ELSE {})

no_duplicate(seq) == Cardinality(elements(seq)) = Len(seq)

\* the working stack and the free list share the indices 1..max_tmps between them
partitioned(working, free, max_tmps) ==
    /\ no_duplicate(working)
    /\ no_duplicate(free)
    /\ elements(working) \cap elements(free) = {}
    /\ elements(working) \cup elements(free) = 1..max_tmps

\* C27: at every step of a flush the working index stack and the free list hold
\* no duplicate, are disjoint and together hold exactly the indices 1..max_tmps
\* (min_tmp is 0); so does the moment inside a call between the release of the
\* arguments and the reservation for RET; an index that is reserved is not on
\* the working stack; and exactly one index is on the working stack when the
\* instruction loop ends, so the copy from a second index is never emitted.
C27_TemporariesArePartitioned ==
    /\ [](\A stack \in streams :
             \A k \in 1..(Len(stack.instructions) + 1) :
                 LET fs == flush_before(stack, k)
                 IN /\ partitioned(fs.intermediate_tmps, fs.stack.available_tmps,
                                   fs.stack.max_tmps)
                    /\ k <= Len(stack.instructions) =>
                          LET instr == stack.instructions[k]
                              m == Len(fs.intermediate_tmps)
                          IN CASE instr.type = "CallFunction" ->
                                    LET rest == SubSeq(fs.intermediate_tmps, 1,
                                                       m - Len(instr.args))
                                        args == SubSeq(fs.intermediate_tmps,
                                                       m - Len(instr.args) + 1, m)
                                        freed == free_tmps(fs.stack, args)
                                    IN /\ m >= Len(instr.args)
                                       /\ partitioned(rest, freed.available_tmps,
                                                      freed.max_tmps)
                                       /\ reserved_tmp(freed) \notin elements(rest)
                               [] instr.type = "Operation" -> m >= 2
                               [] OTHER ->
                                    reserved_tmp(fs.stack) \notin elements(fs.intermediate_tmps))
    /\ [][event'.type = "flush" =>
             /\ Len(last_stack'.remaining) = 1
             /\ last_stack'.result = last_stack'.remaining[1]
             /\ partitioned(<<>>, last_stack'.stack.available_tmps,
                            last_stack'.stack.max_tmps)]_vars

\* a flush is under way with two indices on the working stack and a freed one
C27_Witness ==
    \E stack \in streams :
        \E k \in 1..(Len(stack.instructions) + 1) :
            /\ Len(flush_before(stack, k).intermediate_tmps) >= 2
            /\ Len(flush_before(stack, k).stack.available_tmps) >= 1

\* the action lists of _sculkmain that compile_src can produce from what was built
possible_sculk_mains ==
    {sculk_main_sequence(create_storages(ready_functions, order)) :
        order \in Orderings(storage_functions(ready_functions))}

\* C28: compilation is deterministic: once the AST is walked, the action list
\* of _sculkmain is determined, whatever the order in which the iteration over
\* ready_functions yields the declared functions; two runs on the same source
\* produce the same CreateStorage actions in the same order.
C28_SculkMainIsDetermined ==
    (phase = "compile" /\ frames = <<>>) => Cardinality(possible_sculk_mains) = 1

====
